---- MODULE Spec2Model ----
(***************************************************************************)
(* A model of algo::Vector (src/src/vector.hpp).                           *)
(*                                                                         *)
(* The vector is the three pointers start_, finish_ and end_of_storage_    *)
(* and the block of memory they point into.  The block is modelled slot by *)
(* slot: a slot is raw storage, a live element holding a value, or a live  *)
(* element that has been moved from.  finish_ and end_of_storage_ are kept *)
(* as offsets from start_.                                                 *)
(*                                                                         *)
(* Every member function is one action.  An action takes the call's        *)
(* arguments, and the point at which an element constructor throws, from   *)
(* small sets, runs the member function on the current vector and leaves   *)
(* a record of the call in `call`; Return hands control back to the caller *)
(* and drops the record.                                                   *)
(***************************************************************************)
EXTENDS Integers, Sequences, FiniteSets, TLC

\* Bounds of the model.
MaxCap == 5     \* no operation is started that would reserve more slots
MaxIns == 2     \* longest range / largest count handed to insert and assign
SizeBits == 5   \* width of SizeType in the model

\* The values an element can hold.  Vector<T> never looks into a T: it only
\* constructs, assigns and destroys elements, so what it does to a sequence
\* does not depend on the values in it, and two values are enough to tell
\* any two elements apart.
Values == {"a", "b"}

\* Slot contents besides the values.
DefaultVal == "a"        \* the value of a default-constructed element, T()
MovedFrom == "moved"     \* a live element whose value has been moved out
Raw == "raw"             \* allocated but unconstructed storage

\* The element type and allocator the template is instantiated with:
\*   relocatable    trivially copyable T with std::allocator<T>
\*   trivial        trivially copyable T with another allocator
\*   nothrow_move   T with a noexcept move constructor and a copy
\*                  constructor that may throw
\*   throwing_move  T whose move constructor may throw (or is absent)
Kinds == {"relocatable", "trivial", "nothrow_move", "throwing_move"}

TriviallyCopyable(k) == k \in {"relocatable", "trivial"}
Relocatable(k) == k = "relocatable"

\* What realloc(p, 0) does is implementation-defined.
Realloc0 == {"null_freed", "null_kept", "unique"}

\* start_ names the block of storage the vector points at:
\*   "null"   no block (nullptr)
\*   "heap"   the block the vector owned when the call in progress began
\*   "fresh"  a block obtained from the allocator during the call
\*   "other"  the block another vector owned when the call began
\*   "freed"  a block that has been released
\* Between calls the block the vector owns is "heap": the names tell blocks
\* apart within one call only.
\*
\* allocator_ names the allocator object the vector holds, in the same way:
\*   "own"      the allocator the vector held when the call began
\*   "other"    the allocator another vector held when the call began
\*   "default"  an allocator default-constructed during the call
\*
\* pushed is the caller's account of a run of calls; in a run of pushes and
\* pops: the values
\* pushed and not yet popped, oldest first.  It is kept by the actions of
\* PushPopSpec and StackSpec only.
VARIABLES kind, start_, mem, finish_, end_of_storage_, allocator_, pushed, call

vars == <<kind, start_, mem, finish_, end_of_storage_, allocator_, pushed, call>>

----------------------------------------------------------------------------
\* Element-wise primitives on a block of memory m (a function on 0..n-1).

NewBlock(n) == [i \in 0..(n - 1) |-> Raw]

Put(m, i, x) == [m EXCEPT ![i] = x]

\* What a move leaves in its source.
MovedSrc(k, x) == IF TriviallyCopyable(k) THEN x ELSE MovedFrom

\* std::uninitialized_move(first, last, d_first) and std::move(first, last,
\* d_first): element by element, front to back.
RECURSIVE MoveFwd(_, _, _, _, _)
MoveFwd(k, m, s, e, d) ==
    IF s >= e THEN m
    ELSE MoveFwd(k, Put(Put(m, d, m[s]), s, MovedSrc(k, m[s])), s + 1, e, d + 1)

\* Fault: std::move in place of std::move_backward, which walks the
\* overlapping range front to back.
MoveBackwardForward(k, m, s, e, dl) == MoveFwd(k, m, s, e, dl - (e - s))

\* std::move_backward(first, last, d_last): element by element, back to front.
RECURSIVE MoveBackward(_, _, _, _, _)
MoveBackward(k, m, s, e, dl) ==
    IF s >= e THEN m
    ELSE MoveBackward(k, Put(Put(m, dl - 1, m[e - 1]), e - 1, MovedSrc(k, m[e - 1])),
                      s, e - 1, dl - 1)

\* std::fill(first, last, x), std::fill_n, std::uninitialized_fill_n.
Fill(m, s, e, x) == [i \in DOMAIN m |-> IF s <= i /\ i < e THEN x ELSE m[i]]

\* std::copy / std::uninitialized_copy of the sequence xs to d_first.
CopyIn(m, xs, d) ==
    [i \in DOMAIN m |-> IF d <= i /\ i < d + Len(xs) THEN xs[i - d + 1] ELSE m[i]]

\* std::destroy(first, last).
Destroy(m, s, e) == Fill(m, s, e, Raw)

\* The first n elements of block m in a new block of sz slots.
Relocate(m, n, sz) == [i \in 0..(sz - 1) |-> IF i < n THEN m[i] ELSE Raw]

\* The values xs[a+1..b] (the sub-range [first + a, first + b)).
Sub(xs, a, b) == [i \in 1..(b - a) |-> xs[a + i]]

\* Fault: std::min in place of std::max.
Min(a, b) == IF a <= b THEN a ELSE b

Max(a, b) == IF a >= b THEN a ELSE b

----------------------------------------------------------------------------
\* A vector as a value, and the result of a member function.

Vec(p, m, f, e) == [p |-> p, mem |-> m, fin |-> f, eos |-> e]

EmptyVec == Vec("null", NewBlock(0), 0, 0)

Self == Vec(start_, mem, finish_, end_of_storage_)

size(v) == v.fin
capacity(v) == v.eos

\* The live elements, front to back.
Contents(v) == [i \in 1..v.fin |-> v.mem[i - 1]]

\* used: how many constructing steps that may throw the call has made.  A
\* constructing step is one placement new or one call of a std::uninitialized_
\* algorithm: the algorithm destroys what it has constructed when a
\* constructor throws, so that which of its elements threw leaves no trace.
Ok(v, ret, used) == [v |-> v, threw |-> "none", ret |-> ret, used |-> used]
Threw(v, what) == [v |-> v, threw |-> what, ret |-> -1, used |-> 0]

\* Copy construction may throw unless T is trivially copyable; move
\* construction only when T's move constructor is not noexcept.
CopyThrows(k) == ~TriviallyCopyable(k)
MoveThrows(k) == k = "throwing_move"

\* std::uninitialized_copy(make_move_if_noexcept_iterator(first), ...) of n
\* elements: the number of constructing steps that may throw (it copies
\* when the move constructor may throw, and moves otherwise).
RelocThrows(k, n) == IF MoveThrows(k) /\ n > 0 THEN 1 ELSE 0

\* What it leaves in the n source slots [s, s + n): moved-from elements
\* when the move iterator is used, the elements as they were otherwise.
RelocSrc(k, m, s, n) ==
    IF TriviallyCopyable(k) \/ MoveThrows(k) THEN m
    ELSE Fill(m, s, s + n, MovedFrom)

----------------------------------------------------------------------------
\* Vector::growShrinkAux(sz).  fail = -1: the allocation fails; fail = i > 0:
\* the i-th constructing step that may throw does; r0: what realloc(p, 0)
\* does (read only when sz = 0).
growShrinkAux(k, v, sz, fail, r0) ==
    LET old_size == size(v)
        moved == Vec("fresh", Relocate(v.mem, old_size, sz), old_size, sz)
    IN  IF Relocatable(k) THEN
            IF sz = 0 THEN
                CASE r0 = "null_freed" ->
                        Threw([v EXCEPT !.p = IF @ # "null" THEN "freed" ELSE @],
                              "bad_alloc")
                  [] r0 = "null_kept" -> Threw(v, "bad_alloc")
                  [] OTHER -> Ok(moved, -1, 0)
            ELSE IF fail = -1 THEN Threw(v, "bad_alloc")
            ELSE Ok(moved, -1, 0)
        ELSE IF fail = -1 /\ sz # 0 THEN Threw(v, "bad_alloc")
        ELSE IF TriviallyCopyable(k) THEN
            Ok([moved EXCEPT !.p = IF sz = 0 THEN "null" ELSE "fresh"], -1, 0)
        ELSE IF fail >= 1 /\ fail <= RelocThrows(k, old_size) THEN
            Threw(v, "ctor")
        ELSE
            Ok([moved EXCEPT !.p = IF sz = 0 THEN "null" ELSE "fresh"],
               -1, RelocThrows(k, old_size))

\* The scratch block tmp of a reallocating helper at the moment the helper
\* throws: its slots, the number of elements in it that were constructed and
\* not destroyed (fin), and as p what became of the block: "freed" when it
\* was deallocated, "leaked" when it was not, "null" when there was none
\* (the allocation failed, or the call did not throw in the helper).
NoScratch == EmptyVec

\* Vector::growShrinkAux(sz): std::uninitialized_copy destroys what it
\* constructed before the exception reaches the catch block, which
\* deallocates tmp.  realloc and the memmove path have no scratch block that
\* outlives a failure.
growShrinkAuxScratch(k, v, sz, fail) ==
    IF Relocatable(k) \/ TriviallyCopyable(k) THEN NoScratch
    ELSE IF fail >= 1 /\ fail <= RelocThrows(k, size(v))
    THEN Vec("freed", NewBlock(sz), 0, sz)
    ELSE NoScratch

\* The block of n slots that create(n) allocated for a vector under
\* construction, when the construction of its elements throws (r is the
\* outcome of the constructor): std::uninitialized_... destroys the elements
\* it constructed, the constructor has no handler that calls deallocate, and
\* ~Vector() does not run for a vector that was never constructed.
createScratch(n, r) ==
    IF r.threw = "ctor" THEN Vec("leaked", NewBlock(n), 0, n) ELSE NoScratch

\* Fault: a push_back that grows by one slot.
pushBackGrowByOne(k, v, e, byMove, fail) ==
    LET g == IF v.fin = v.eos
             THEN growShrinkAux(k, v, capacity(v) + 1, fail, "unique")
             ELSE Ok(v, -1, 0)
        w == g.v
        throws == IF byMove THEN MoveThrows(k) ELSE CopyThrows(k)
    IN  IF g.threw # "none" THEN g
        ELSE IF throws /\ fail = g.used + 1 THEN Threw(w, "ctor")
        ELSE Ok([w EXCEPT !.mem = Put(@, w.fin, e), !.fin = @ + 1],
                -1, g.used + (IF throws THEN 1 ELSE 0))

\* Fault: push_back without its ++finish_.
pushBackNoAdvance(k, v, e, byMove, fail) ==
    LET g == IF v.fin = v.eos
             THEN growShrinkAux(k, v, capacity(v) * 2 + 1, fail, "unique")
             ELSE Ok(v, -1, 0)
    IN  IF g.threw # "none" THEN g
        ELSE Ok([g.v EXCEPT !.mem = Put(@, g.v.fin, e)], -1, g.used)

\* Vector::push_back(const T&) (byMove = FALSE) and push_back(T&&).
push_back(k, v, e, byMove, fail) ==
    LET g == IF v.fin = v.eos
             THEN growShrinkAux(k, v, capacity(v) * 2 + 1, fail, "unique")
             ELSE Ok(v, -1, 0)
        w == g.v
        throws == IF byMove THEN MoveThrows(k) ELSE CopyThrows(k)
    IN  IF g.threw # "none" THEN g
        ELSE IF throws /\ fail = g.used + 1 THEN Threw(w, "ctor")
        ELSE Ok([w EXCEPT !.mem = Put(@, w.fin, e), !.fin = @ + 1],
                -1, g.used + (IF throws THEN 1 ELSE 0))

\* Vector::push_back(const T& e) with e a reference to the vector's own
\* element at offset alias.  When the vector is full growShrinkAux runs
\* before new (finish_) T(e): by then the block e refers to has been
\* released (and its elements moved from or destroyed), and seen is what
\* the read of e finds there.
pushBackAlias(k, v, alias, seen, fail) ==
    push_back(k, v, IF v.fin = v.eos THEN seen ELSE v.mem[alias], FALSE, fail)

\* Fault: a pop_back that steps finish_ back without destroying the element.
popBackNoDestroy(v) == Ok([v EXCEPT !.fin = @ - 1], -1, 0)

\* Vector::pop_back().
pop_back(v) ==
    Ok([v EXCEPT !.fin = @ - 1, !.mem = Put(@, v.fin - 1, Raw)], -1, 0)

\* Fault: an address check that lets the first element through.
addressCheckAfterFirst(v, alias) == alias > 0 /\ alias < v.fin

\* Vector::addressCheck(p): the argument is the element at offset alias of
\* this vector (alias = -1: an object outside the vector).
addressCheck(v, alias) == alias >= 0 /\ alias < v.fin

\* Vector::insertExpandAux(pos, args...).  x is the value the new element is
\* constructed with, argThrows whether that constructor may throw.
insertExpandAux(k, v, offset, x, argThrows, fail) ==
    LET old_size == size(v)
        sz == old_size * 2 + 1
        n1 == RelocThrows(k, offset)
        n2 == RelocThrows(k, old_size - offset)
        c == IF argThrows THEN 1 ELSE 0
        tmp == [i \in 0..(sz - 1) |->
                   IF i < offset THEN v.mem[i]
                   ELSE IF i = offset THEN x
                   ELSE IF i <= old_size THEN v.mem[i - 1]
                   ELSE Raw]
        done == Vec("fresh", tmp, old_size + 1, sz)
    IN  IF fail = -1 THEN Threw(v, "bad_alloc")
        ELSE IF TriviallyCopyable(k) THEN
            IF argThrows /\ fail = 1 THEN Threw(v, "ctor") ELSE Ok(done, offset, c)
        ELSE IF fail >= 1 /\ fail <= n1 THEN Threw(v, "ctor")
        ELSE IF fail >= 1 /\ fail <= n1 + c THEN
            Threw([v EXCEPT !.mem = RelocSrc(k, @, 0, offset)], "ctor")
        ELSE IF fail >= 1 /\ fail <= n1 + c + n2 THEN
            Threw([v EXCEPT !.mem = RelocSrc(k, @, 0, offset)], "ctor")
        ELSE Ok(done, offset, n1 + c + n2)

\* Vector::insertExpandAux(pos, args...) when it throws: the catch block
\* deallocates tmp and destroys nothing, so the elements of the steps that
\* were completed stay constructed in it; the branch for trivially copyable
\* T has no catch block.
insertExpandAuxScratch(k, v, offset, x, argThrows, fail) ==
    LET old_size == size(v)
        sz == old_size * 2 + 1
        n1 == RelocThrows(k, offset)
        n2 == RelocThrows(k, old_size - offset)
        c == IF argThrows THEN 1 ELSE 0
        tmp == [i \in 0..(sz - 1) |->
                   IF i < offset THEN v.mem[i]
                   ELSE IF i = offset THEN x
                   ELSE Raw]
    IN  IF fail = -1 THEN NoScratch
        ELSE IF TriviallyCopyable(k) THEN
            IF argThrows /\ fail = 1
            THEN Vec("leaked", Relocate(tmp, offset, sz), offset, sz)
            ELSE NoScratch
        ELSE IF fail >= 1 /\ fail <= n1 THEN Vec("freed", NewBlock(sz), 0, sz)
        ELSE IF fail >= 1 /\ fail <= n1 + c THEN
            Vec("freed", Relocate(tmp, offset, sz), offset, sz)
        ELSE IF fail >= 1 /\ fail <= n1 + c + n2 THEN
            Vec("freed", Relocate(tmp, offset + 1, sz), offset + 1, sz)
        ELSE NoScratch

\* Fault: the spare-capacity path without its std::move_backward: the last
\* element is moved up and the new one overwrites the element at pos.
insertOneNoShift(k, v, p, x, argThrows, fail) ==
    IF v.fin # v.eos THEN
        IF p = v.fin THEN
            IF argThrows /\ fail = 1 THEN Threw(v, "ctor")
            ELSE Ok([v EXCEPT !.mem = Put(@, v.fin, x), !.fin = @ + 1],
                    p, IF argThrows THEN 1 ELSE 0)
        ELSE
            LET m1 == Put(Put(v.mem, v.fin, v.mem[v.fin - 1]),
                          v.fin - 1, MovedSrc(k, v.mem[v.fin - 1]))
            IN  Ok([v EXCEPT !.mem = Put(m1, p, x), !.fin = @ + 1], p, 0)
    ELSE insertExpandAux(k, v, p, x, argThrows, fail)

\* The body shared by Vector::insert(pos, const T&), insert(pos, T&&) and
\* Vector::emplace(pos, args...): they differ in the constructor that builds
\* the new element from x.
insertOne(k, v, p, x, argThrows, fail) ==
    IF v.fin # v.eos THEN
        IF p = v.fin THEN
            IF argThrows /\ fail = 1 THEN Threw(v, "ctor")
            ELSE Ok([v EXCEPT !.mem = Put(@, v.fin, x), !.fin = @ + 1],
                    p, IF argThrows THEN 1 ELSE 0)
        ELSE
            LET m1 == Put(Put(v.mem, v.fin, v.mem[v.fin - 1]),
                          v.fin - 1, MovedSrc(k, v.mem[v.fin - 1]))
                f1 == v.fin + 1
                m2 == MoveBackward(k, m1, p, f1 - 2, f1 - 1)
            IN  Ok([v EXCEPT !.mem = Put(m2, p, x), !.fin = f1], p, 0)
    ELSE insertExpandAux(k, v, p, x, argThrows, fail)

\* The scratch block of insert(pos, value) and emplace when they throw.
insertOneScratch(k, v, p, x, argThrows, fail) ==
    IF v.fin # v.eos THEN NoScratch
    ELSE insertExpandAuxScratch(k, v, p, x, argThrows, fail)

\* Vector::insert(pos, const T& value).
insert(k, v, p, x, alias, fail) ==
    IF addressCheck(v, alias) THEN Threw(v, "range_error")
    ELSE insertOne(k, v, p, x, CopyThrows(k), fail)

\* Vector::insert(pos, T&& value).
insertMove(k, v, p, x, fail) == insertOne(k, v, p, x, MoveThrows(k), fail)

\* Vector::emplace(pos, args...): any constructor of T, which may throw.
emplace(k, v, p, x, fail) == insertOne(k, v, p, x, TRUE, fail)

\* Fault: emplace_back that takes the reference it returns before ++finish_.
emplaceBackStaleRef(k, v, x, fail) ==
    LET g == IF v.fin = v.eos
             THEN growShrinkAux(k, v, capacity(v) * 2 + 1, fail, "unique")
             ELSE Ok(v, -1, 0)
        w == g.v
    IN  IF g.threw # "none" THEN g
        ELSE IF fail = g.used + 1 THEN Threw(w, "ctor")
        ELSE Ok([w EXCEPT !.mem = Put(@, w.fin, x), !.fin = @ + 1],
                w.fin - 1, g.used + 1)

\* Vector::emplace_back(args...); the reference returned is back().
emplace_back(k, v, x, fail) ==
    LET g == IF v.fin = v.eos
             THEN growShrinkAux(k, v, capacity(v) * 2 + 1, fail, "unique")
             ELSE Ok(v, -1, 0)
        w == g.v
    IN  IF g.threw # "none" THEN g
        ELSE IF fail = g.used + 1 THEN Threw(w, "ctor")
        ELSE Ok([w EXCEPT !.mem = Put(@, w.fin, x), !.fin = @ + 1],
                w.fin, g.used + 1)

\* Fault: erase(pos) without the std::move that closes the gap: it drops the
\* last element.
eraseNoShift(k, v, p) ==
    Ok([v EXCEPT !.mem = Put(@, v.fin - 1, Raw), !.fin = @ - 1], p, 0)

\* Vector::erase(pos).
erase(k, v, p) ==
    LET m1 == IF p + 1 # v.fin THEN MoveFwd(k, v.mem, p + 1, v.fin, p) ELSE v.mem
    IN  Ok([v EXCEPT !.mem = Put(m1, v.fin - 1, Raw), !.fin = @ - 1], p, 0)

\* Fault: erase(first, last) that moves the tail from first + 1 on, as
\* erase(pos) does, instead of from last on.
eraseRangeFromNext(k, v, pfirst, plast) ==
    IF pfirst # plast THEN
        IF plast = v.fin THEN
            Ok([v EXCEPT !.mem = Destroy(@, pfirst, plast), !.fin = pfirst],
               pfirst, 0)
        ELSE
            LET nf == pfirst + (v.fin - plast)
                m1 == MoveFwd(k, v.mem, pfirst + 1, pfirst + 1 + (v.fin - plast),
                              pfirst)
            IN  Ok([v EXCEPT !.mem = Destroy(m1, nf, v.fin), !.fin = nf],
                   pfirst, 0)
    ELSE Ok(v, pfirst, 0)

\* Vector::erase(first, last).
eraseRange(k, v, pfirst, plast) ==
    IF pfirst # plast THEN
        IF plast = v.fin THEN
            Ok([v EXCEPT !.mem = Destroy(@, pfirst, plast), !.fin = pfirst],
               pfirst, 0)
        ELSE
            LET m1 == MoveFwd(k, v.mem, plast, v.fin, pfirst)
                nf == pfirst + (v.fin - plast)
            IN  Ok([v EXCEPT !.mem = Destroy(m1, nf, v.fin), !.fin = nf],
                   pfirst, 0)
    ELSE Ok(v, pfirst, 0)

\* Fault: clear that resets finish_ without std::destroy.
clearNoDestroy(v) == Ok([v EXCEPT !.fin = 0], -1, 0)

\* Vector::clear().
clear(v) == Ok([v EXCEPT !.mem = Destroy(@, 0, v.fin), !.fin = 0], -1, 0)

\* Both overloads of Vector::insertRangeExpandAux: xs are the values
\* constructed at pos (count copies of value, or the range [first, last)),
\* srcThrows whether constructing one of them may throw.
insertRangeExpandAux(k, v, offset, xs, srcThrows, fail) ==
    LET count == Len(xs)
        old_size == size(v)
        sz == old_size + Max(count, old_size) + 1
        n1 == RelocThrows(k, offset)
        n2 == RelocThrows(k, old_size - offset)
        c == IF srcThrows THEN 1 ELSE 0
        tmp == [i \in 0..(sz - 1) |->
                   IF i < offset THEN v.mem[i]
                   ELSE IF i < offset + count THEN xs[i - offset + 1]
                   ELSE IF i < old_size + count THEN v.mem[i - count]
                   ELSE Raw]
        done == Vec("fresh", tmp, old_size + count, sz)
    IN  IF fail = -1 THEN Threw(v, "bad_alloc")
        ELSE IF TriviallyCopyable(k) THEN Ok(done, offset, 0)
        ELSE IF fail >= 1 /\ fail <= n1 THEN Threw(v, "ctor")
        ELSE IF fail >= 1 /\ fail <= n1 + c + n2 THEN
            Threw([v EXCEPT !.mem = RelocSrc(k, @, 0, offset)], "ctor")
        ELSE Ok(done, offset, n1 + c + n2)

\* n copies of x.
Copies(n, x) == [i \in 1..n |-> x]

\* Both overloads of Vector::insertRangeExpandAux when they throw: as in
\* insertExpandAux the catch block only deallocates tmp.
insertRangeExpandAuxScratch(k, v, offset, xs, srcThrows, fail) ==
    LET count == Len(xs)
        old_size == size(v)
        sz == old_size + Max(count, old_size) + 1
        n1 == RelocThrows(k, offset)
        n2 == RelocThrows(k, old_size - offset)
        c == IF srcThrows THEN 1 ELSE 0
        tmp == [i \in 0..(sz - 1) |->
                   IF i < offset THEN v.mem[i]
                   ELSE IF i < offset + count THEN xs[i - offset + 1]
                   ELSE Raw]
    IN  IF fail = -1 \/ TriviallyCopyable(k) THEN NoScratch
        ELSE IF fail >= 1 /\ fail <= n1 THEN Vec("freed", NewBlock(sz), 0, sz)
        ELSE IF fail >= 1 /\ fail <= n1 + c THEN
            Vec("freed", Relocate(tmp, offset, sz), offset, sz)
        ELSE IF fail >= 1 /\ fail <= n1 + c + n2 THEN
            Vec("freed", tmp, offset + count, sz)
        ELSE NoScratch

\* The scratch block of insert(pos, count, value) when it throws.
insertNScratch(k, v, p, count, x, fail) ==
    IF count = 0 THEN NoScratch
    ELSE IF count = 1 THEN insertOneScratch(k, v, p, x, CopyThrows(k), fail)
    ELSE IF v.fin + count <= v.eos THEN NoScratch
    ELSE insertRangeExpandAuxScratch(k, v, p, Copies(count, x), CopyThrows(k), fail)

\* Vector::insert(pos, count, value).
insertN(k, v, p, count, x, alias, fail) ==
    IF count = 0 THEN Ok(v, p, 0)
    ELSE IF count = 1 THEN insert(k, v, p, x, alias, fail)
    ELSE IF v.fin + count <= v.eos THEN
        LET fin == v.fin
            m == fin - p
            m1 == IF p = fin THEN Fill(v.mem, fin, fin + count, x)
                  ELSE IF count = m THEN
                      Fill(MoveFwd(k, v.mem, p, fin, fin), p, p + count, x)
                  ELSE IF count < m THEN
                      Fill(MoveBackward(k, MoveFwd(k, v.mem, fin - count, fin, fin),
                                        p, fin - count, fin),
                           p, fin - count, x)
                  ELSE
                      Fill(Fill(MoveFwd(k, v.mem, p, fin, fin + (count - m)),
                                p, fin, x),
                           fin, fin + (count - m), x)
        IN  Ok([v EXCEPT !.mem = m1, !.fin = @ + count], p, 0)
    ELSE insertRangeExpandAux(k, v, p, Copies(count, x), CopyThrows(k), fail)

\* Vector::insertRangeAux(pos, first, last, std::forward_iterator_tag).
insertRangeFwd(k, v, pos, xs, srcThrows, fail) ==
    LET count == Len(xs)
        fin == v.fin
    IN  IF fin + count <= v.eos THEN
            LET m == fin - pos
                m1 == IF pos = fin THEN CopyIn(v.mem, xs, fin)
                      ELSE IF count = m THEN
                          CopyIn(MoveFwd(k, v.mem, pos, fin, fin), xs, fin)
                      ELSE IF count < m THEN
                          CopyIn(MoveBackward(k, MoveFwd(k, v.mem, fin - count, fin, fin),
                                              pos, fin - count, fin),
                                 xs, pos)
                      ELSE
                          CopyIn(CopyIn(MoveFwd(k, v.mem, pos, fin, fin + (count - m)),
                                        Sub(xs, 0, m), pos),
                                 Sub(xs, m, count), fin)
            IN  Ok([v EXCEPT !.mem = m1, !.fin = @ + count], pos, 0)
        ELSE insertRangeExpandAux(k, v, pos, xs, srcThrows, fail)

\* The loop of insertRangeAux(pos, first, last, std::input_iterator_tag) for
\* pos == finish_: insert(end(), *first++) for every element of the range.
RECURSIVE insertEach(_, _, _, _)
insertEach(k, v, xs, fail) ==
    IF xs = <<>> THEN Ok(v, -1, 0)
    ELSE LET r == insert(k, v, v.fin, Head(xs), -1, fail)
         IN  IF r.threw # "none" THEN r
             ELSE LET q == insertEach(k, r.v, Tail(xs),
                                      IF fail >= 1 THEN fail - r.used ELSE fail)
                  IN  IF q.threw # "none" THEN q
                      ELSE Ok(q.v, -1, r.used + q.used)

\* Vector::create(sz) followed by the construction of the elements xs:
\* the constructors Vector(count, value), Vector(first, last), Vector(const
\* Vector&) and Vector(initializer_list).  When a constructor of T throws,
\* no vector comes into being.
construct(k, xs, srcThrows, fail) ==
    LET n == Len(xs)
    IN  IF fail = -1 /\ n # 0 THEN Threw(EmptyVec, "bad_alloc")
        ELSE IF srcThrows /\ n > 0 /\ fail = 1 THEN Threw(EmptyVec, "ctor")
        ELSE Ok(Vec(IF n = 0 THEN "null" ELSE "fresh",
                    [i \in 0..(n - 1) |-> xs[i + 1]], n, n),
                -1, IF srcThrows /\ n > 0 THEN 1 ELSE 0)

\* Vector::insertRangeAux(pos, first, last, std::input_iterator_tag).
insertRangeInput(k, v, pos, xs, fail) ==
    IF pos = v.fin THEN insertEach(k, v, xs, fail)
    ELSE LET t == construct(k, xs, CopyThrows(k), fail)
         IN  IF t.threw # "none" THEN Threw(v, t.threw)
             ELSE LET r == insertRangeFwd(k, v, pos, Contents(t.v), MoveThrows(k),
                                          IF fail >= 1 THEN fail - t.used ELSE fail)
                  IN  IF r.threw # "none" THEN r
                      ELSE Ok(r.v, r.ret, t.used + r.used)

\* Vector::insert(pos, first, last) and insert(pos, initializer_list); cat is
\* the iterator category of Iter.
insertRange(k, v, pos, xs, cat, fail) ==
    IF xs = <<>> THEN Ok(v, pos, 0)
    ELSE LET r == IF cat = "input" THEN insertRangeInput(k, v, pos, xs, fail)
                  ELSE insertRangeFwd(k, v, pos, xs, CopyThrows(k), fail)
         IN  IF r.threw # "none" THEN r ELSE Ok(r.v, pos, r.used)

\* The sizes of the blocks that the loop of insertRangeAux for input
\* iterators at pos == finish_ allocates when no call throws: one for every
\* insert(end(), *first++) that finds the vector full.
RECURSIVE insertEachBlocks(_, _, _)
insertEachBlocks(k, v, xs) ==
    IF xs = <<>> THEN <<>>
    ELSE (IF v.fin = v.eos THEN <<size(v) * 2 + 1>> ELSE <<>>)
         \o insertEachBlocks(k, insert(k, v, v.fin, Head(xs), -1, 0).v, Tail(xs))

\* The sizes of the blocks allocated, in order, by a call of insert or
\* emplace that returns: op is the overload called ("insert", "insert_move",
\* "emplace", "insert_n", "insert_range" for forward iterators and
\* initializer lists, "insert_range_input"), xs the count values inserted.
insertBlocks(k, v, op, pos, xs) ==
    LET count == Len(xs)
        one == IF v.fin = v.eos THEN <<size(v) * 2 + 1>> ELSE <<>>
        bulk == IF v.fin + count <= v.eos THEN <<>>
                ELSE <<size(v) + Max(count, size(v)) + 1>>
    IN  IF count = 0 THEN <<>>
        ELSE IF op = "insert_n" THEN (IF count = 1 THEN one ELSE bulk)
        ELSE IF op = "insert_range" THEN bulk
        ELSE IF op = "insert_range_input" THEN
            IF pos = v.fin THEN insertEachBlocks(k, v, xs)
            ELSE <<count>> \o bulk
        ELSE one

\* Vector::maxSize(): ~SizeType(0), the largest SizeType.  SizeType is
\* modelled as an unsigned integer of SizeBits bits.
maxSize == 2 ^ SizeBits - 1

\* The conversion of an integer argument to SizeType (std::size_t), which
\* is modulo 2^SizeBits.
ToSizeType(n) == n % (2 ^ SizeBits)

\* Fault: reserve that compares new_cap with size() instead of capacity().
reserveToSize(k, v, new_cap, fail) ==
    IF new_cap > maxSize THEN Threw(v, "length_error")
    ELSE IF new_cap > size(v) THEN growShrinkAux(k, v, new_cap, fail, "unique")
    ELSE Ok(v, -1, 0)

\* Vector::reserve(new_cap).
reserve(k, v, new_cap, fail) ==
    IF new_cap > maxSize THEN Threw(v, "length_error")
    ELSE IF new_cap > capacity(v) THEN growShrinkAux(k, v, new_cap, fail, "unique")
    ELSE Ok(v, -1, 0)

\* sizeof(T) for the T of the byte-level account of reserve.
SizeOfT == 2

\* sz * sizeof(T) as the code computes it, in SizeType.
ByteSize(sz) == (sz * SizeOfT) % (2 ^ SizeBits)

\* Vector::reserve(new_cap) down to the bytes.  For a T reallocated with
\* realloc, growShrinkAux asks realloc for new_cap * sizeof(T) bytes, a
\* product in SizeType, and sets end_of_storage_ = start_ + new_cap: the
\* address wraps as the product does, and capacity(), the distance from
\* start_ to end_of_storage_, is the number of slots in that many bytes.
\* The elements that do not fit in the block are cut off; finish_ is
\* start_ + old_size whatever the block holds.  For any other T the
\* allocator is asked for new_cap objects.
reserveBytes(k, v, new_cap, fail, r0) ==
    IF new_cap > maxSize THEN Threw(v, "length_error")
    ELSE IF new_cap <= capacity(v) THEN Ok(v, -1, 0)
    ELSE IF ~Relocatable(k) THEN growShrinkAux(k, v, new_cap, fail, r0)
    ELSE LET bytes == ByteSize(new_cap)
             got == bytes \div SizeOfT
             tmp == Vec("fresh",
                        [i \in 0..(got - 1) |->
                            IF i < size(v) /\ i \in DOMAIN v.mem THEN v.mem[i] ELSE Raw],
                        size(v), got)
         IN  IF bytes = 0 THEN
                 CASE r0 = "null_freed" ->
                         Threw([v EXCEPT !.p = IF @ # "null" THEN "freed" ELSE @],
                               "bad_alloc")
                   [] r0 = "null_kept" -> Threw(v, "bad_alloc")
                   [] OTHER -> Ok(tmp, -1, 0)
             ELSE IF fail = -1 THEN Threw(v, "bad_alloc")
             ELSE Ok(tmp, -1, 0)

\* Vector::shrink().
shrink(k, v, fail, r0) == growShrinkAux(k, v, size(v), fail, r0)

\* std::uninitialized_default_construct_n: `new (p) T`.  A trivially
\* copyable T such as int is left with an indeterminate value, junk.
DefaultThrows(k) == ~TriviallyCopyable(k)
DefaultInit(k, junk) == IF TriviallyCopyable(k) THEN junk ELSE DefaultVal

\* Fault: resize whose middle branch is taken up to and including
\* capacity(), and whose last branch constructs without growing.
resizeNoGrow(k, v, new_size, junk, fail, r0) ==
    IF new_size < size(v) THEN
        Ok([v EXCEPT !.mem = Destroy(@, new_size, v.fin), !.fin = new_size], -1, 0)
    ELSE IF DefaultThrows(k) /\ new_size > size(v) /\ fail = 1 THEN Threw(v, "ctor")
    ELSE Ok([v EXCEPT !.mem = Fill(@, v.fin, new_size, DefaultInit(k, junk)),
                      !.fin = new_size],
            -1, IF DefaultThrows(k) /\ new_size > size(v) THEN 1 ELSE 0)

\* Vector::resize(new_size).
resize(k, v, new_size, junk, fail, r0) ==
    IF new_size < size(v) THEN
        Ok([v EXCEPT !.mem = Destroy(@, new_size, v.fin), !.fin = new_size], -1, 0)
    ELSE IF new_size > size(v) /\ new_size < capacity(v) THEN
        IF DefaultThrows(k) /\ fail = 1
        THEN Threw(v, "ctor")
        ELSE Ok([v EXCEPT !.mem = Fill(@, v.fin, new_size, DefaultInit(k, junk)),
                          !.fin = new_size],
                -1, IF DefaultThrows(k) THEN 1 ELSE 0)
    ELSE
        LET old_size == size(v)
            g == growShrinkAux(k, v, new_size, fail, r0)
            w == g.v
            f == IF fail >= 1 THEN fail - g.used ELSE fail
        IN  IF g.threw # "none" THEN g
            ELSE IF DefaultThrows(k) /\ new_size > old_size /\ f = 1
            THEN Threw(w, "ctor")
            ELSE Ok([w EXCEPT !.mem = Fill(@, w.fin, new_size, DefaultInit(k, junk)),
                              !.fin = new_size],
                    -1, g.used + (IF DefaultThrows(k) /\ new_size > old_size
                                  THEN 1 ELSE 0))

\* Vector::Vector(count, value): create(count), std::uninitialized_fill_n.
constructN(k, count, x, fail) == construct(k, Copies(count, x), CopyThrows(k), fail)

\* Vector::Vector(count): create(count), std::uninitialized_default_construct_n.
constructDefault(k, count, junk, fail) ==
    construct(k, Copies(count, DefaultInit(k, junk)), DefaultThrows(k), fail)

\* Vector::Vector(first, last): create(std::distance(first, last)), then
\* std::uninitialized_copy(first, last, start_).  cat is what Iter is:
\*   "forward"      a forward iterator (or better)
\*   "input"        of the input category, but able to go over the range again
\*   "single_pass"  of the input category and reading its range once, as
\*                  std::istream_iterator does: std::distance takes the range
\*                  to its end, and first is left with the element it holds.
constructRange(k, xs, cat, fail) ==
    LET n == Len(xs)
        got == IF cat = "single_pass" /\ n > 0 THEN <<xs[1]>> ELSE xs
    IN  IF fail = -1 /\ n # 0 THEN Threw(EmptyVec, "bad_alloc")
        ELSE IF CopyThrows(k) /\ n > 0 /\ fail = 1 THEN Threw(EmptyVec, "ctor")
        ELSE Ok(Vec(IF n = 0 THEN "null" ELSE "fresh",
                    CopyIn(NewBlock(n), got, 0), Len(got), n),
                -1, IF CopyThrows(k) /\ n > 0 THEN 1 ELSE 0)

\* Vector::Vector(std::initializer_list<T>): Vector(init.begin(), init.end()).
constructList(k, xs, fail) == constructRange(k, xs, "forward", fail)

\* Vector::Vector(const Vector& rhs): Vector(rhs.begin(), rhs.end()).
constructCopy(k, rhs, fail) == constructRange(k, Contents(rhs), "forward", fail)

\* Vector::operator[](n): *(start_ + n), unchecked.  Outside the block the
\* read is undefined; it is shown as raw storage.
subscript(v, n) == IF n \in DOMAIN v.mem THEN v.mem[n] ELSE Raw

\* Vector::front() and Vector::back(): *start_ and *(finish_ - 1), unchecked.
front(v) == subscript(v, 0)
back(v) == subscript(v, v.fin - 1)

\* Vector::empty().
empty(v) == size(v) = 0

\* Going from begin() to end() with ++, reading *it.
begin(v) == 0
end(v) == v.fin
Iterate(v) == [i \in 1..(end(v) - begin(v)) |-> subscript(v, begin(v) + (i - 1))]

\* Going from rbegin() to rend(): a std::reverse_iterator over base reads
\* *(base - 1) and its ++ is --base.
rbegin(v) == end(v)
rend(v) == begin(v)
ReverseIterate(v) == [i \in 1..(rbegin(v) - rend(v)) |-> subscript(v, (rbegin(v) - (i - 1)) - 1)]

\* Fault: a range check that lets n = size() through.
rangeCheckOffByOne(v, n) == n > size(v)

\* Vector::rangeCheck(n): whether it throws std::out_of_range.
rangeCheck(v, n) == n >= size(v)

\* Vector::at(n).  ret is the offset of the element referred to.
at(v, n) ==
    IF rangeCheck(v, n) THEN Threw(v, "out_of_range") ELSE Ok(v, n, 0)

\* Fault: a swap that takes rhs's pointers and does not write its own
\* into rhs.
swapOneWay(v, rhs) == <<rhs, rhs>>

\* Vector::swap(rhs): the pair <<this, rhs>> after the call.
swap(v, rhs) == <<rhs, v>>

\* The allocators in Vector::swap(rhs): a = std::move(rhs.allocator_);
\* rhs.allocator_ = std::move(allocator_); allocator_ = std::move(a).  The
\* pair <<allocator_, rhs.allocator_>> after the call.
swapAllocators(this_alloc, rhs_alloc) ==
    LET a == rhs_alloc
        rhs1 == this_alloc
        this1 == a
    IN  <<this1, rhs1>>

\* algo::swap(x, y): x.swap(y).
freeSwap(x, y) == swap(x, y)

\* Stack::swap(rhs) on the containers c_ and rhs.c_: swap(c_, rhs.c_), which
\* finds algo::swap.
Stack_swap(c, rhs_c) == freeSwap(c, rhs_c)

\* Fault: a copy assignment that takes over the pointers of rhs (a shallow
\* copy): both vectors then point into one block.
copyAssignShallow(k, v, rhs, fail) == Ok(rhs, -1, 0)

\* Vector::operator=(const Vector& rhs): Vector tmp(rhs); tmp.swap(*this).
copyAssign(k, v, rhs, fail) ==
    LET t == construct(k, Contents(rhs), CopyThrows(k), fail)
    IN  IF t.threw # "none" THEN Threw(v, t.threw)
        ELSE Ok(swap(t.v, v)[2], -1, t.used)

\* Vector::Vector(Vector&& rhs): the pair <<new vector, rhs>>.
moveConstruct(rhs) == <<rhs, EmptyVec>>

\* Fault: a destructor that destroys the elements and keeps the block.
destroyNoDeallocate(v) == [v EXCEPT !.mem = Destroy(@, 0, v.fin)]

\* Vector::~Vector(): the elements are destroyed and the block is released.
destroyVector(v) ==
    [v EXCEPT !.p = IF @ = "null" THEN "null" ELSE "freed",
              !.mem = Destroy(@, 0, v.fin)]

\* Fault: move assignment written as a plain swap: the source is left with
\* what the destination held, and nothing is released.
moveAssignBySwap(v, rhs) == [this |-> rhs, rhs |-> v, tmp |-> EmptyVec]

\* Vector::operator=(Vector&& rhs), step by step: Vector tmp(std::move(rhs));
\* tmp.swap(*this); and tmp's destructor at the end of the block.  The
\* result is *this, rhs and tmp afterwards.
moveAssignSteps(v, rhs) ==
    LET mc == moveConstruct(rhs)
        sw == swap(mc[1], v)
    IN  [this |-> sw[2], rhs |-> mc[2], tmp |-> destroyVector(sw[1])]

\* Vector::operator=(Vector&& rhs).
moveAssign(v, rhs) == Ok(moveAssignSteps(v, rhs).this, -1, 0)

\* Fault: assign(count, value) whose middle branch appends the missing
\* elements without overwriting the existing ones.
assignNAppendOnly(k, v, count, x, fail) ==
    IF count > capacity(v) THEN
        LET t == construct(k, Copies(count, x), CopyThrows(k), fail)
        IN  IF t.threw # "none" THEN Threw(v, t.threw)
            ELSE Ok(swap(t.v, v)[2], -1, t.used)
    ELSE IF count > size(v) THEN
        Ok([v EXCEPT !.mem = Fill(@, v.fin, count, x), !.fin = count], -1, 0)
    ELSE
        LET e == eraseRange(k, [v EXCEPT !.mem = Fill(@, 0, count, x)], count, v.fin)
        IN  Ok(e.v, -1, 0)

\* Vector::assign(count, value).
assignN(k, v, count, x, fail) ==
    IF count > capacity(v) THEN
        LET t == construct(k, Copies(count, x), CopyThrows(k), fail)
        IN  IF t.threw # "none" THEN Threw(v, t.threw)
            ELSE Ok(swap(t.v, v)[2], -1, t.used)
    ELSE IF count > size(v) THEN
        Ok([v EXCEPT !.mem = Fill(Fill(@, 0, v.fin, x), v.fin, count, x),
                     !.fin = count], -1, 0)
    ELSE
        LET e == eraseRange(k, [v EXCEPT !.mem = Fill(@, 0, count, x)], count, v.fin)
        IN  Ok(e.v, -1, 0)

\* Fault: assign(first, last) that overwrites the leading elements and
\* forgets to erase the excess.
assignFwdNoErase(k, v, xs, fail) ==
    LET count == Len(xs)
    IN  IF count > capacity(v) THEN
            LET t == construct(k, xs, CopyThrows(k), fail)
            IN  IF t.threw # "none" THEN Threw(v, t.threw)
                ELSE Ok(swap(t.v, v)[2], -1, t.used)
        ELSE IF count > size(v) THEN
            Ok([v EXCEPT !.mem = CopyIn(CopyIn(@, Sub(xs, 0, v.fin), 0),
                                        Sub(xs, v.fin, count), v.fin),
                         !.fin = count], -1, 0)
        ELSE Ok([v EXCEPT !.mem = CopyIn(@, xs, 0)], -1, 0)

\* Vector::assign(first, last) for forward iterators and
\* Vector::assign(initializer_list), which read the same.
assignFwd(k, v, xs, fail) ==
    LET count == Len(xs)
    IN  IF count > capacity(v) THEN
            LET t == construct(k, xs, CopyThrows(k), fail)
            IN  IF t.threw # "none" THEN Threw(v, t.threw)
                ELSE Ok(swap(t.v, v)[2], -1, t.used)
        ELSE IF count > size(v) THEN
            Ok([v EXCEPT !.mem = CopyIn(CopyIn(@, Sub(xs, 0, v.fin), 0),
                                        Sub(xs, v.fin, count), v.fin),
                         !.fin = count], -1, 0)
        ELSE
            LET e == eraseRange(k, [v EXCEPT !.mem = CopyIn(@, xs, 0)], count, v.fin)
            IN  Ok(e.v, -1, 0)

\* Vector::assign(first, last) for input iterators.
assignInput(k, v, xs, fail) ==
    LET n == IF Len(xs) < v.fin THEN Len(xs) ELSE v.fin
        w == [v EXCEPT !.mem = CopyIn(@, Sub(xs, 0, n), 0)]
    IN  IF n = Len(xs) THEN Ok(eraseRange(k, w, n, v.fin).v, -1, 0)
        ELSE LET r == insertRange(k, w, w.fin, Sub(xs, n, Len(xs)), "input", fail)
             IN  IF r.threw # "none" THEN r ELSE Ok(r.v, -1, r.used)

----------------------------------------------------------------------------
\* What a member function does to the slots of the block, step by step: it
\* constructs an element in a slot (placement new, std::uninitialized_...),
\* assigns to the element in it (operator=, std::copy, std::fill, std::move,
\* std::move_backward), reads the element in it, or destroys it.  A step
\* covers the slots [s, e).
Step(op, s, e) == [op |-> op, s |-> s, e |-> e]

\* The steps of a call and the block they are taken in: the vector's own
\* (sz = -1), or a new block of sz raw slots that the vector then takes over.
InPlace(steps) == [sz |-> -1, steps |-> steps]
InNewBlock(sz, steps) == [sz |-> sz, steps |-> steps]

\* Vector::clear(): std::destroy(start_, finish_).
clearSteps(v) == <<Step("destroy", 0, v.fin)>>

\* Vector::growShrinkAux(sz): the old_size elements are moved, copied or
\* relocated to the front of the new block.
growShrinkAuxSteps(v, sz) == InNewBlock(sz, <<Step("construct", 0, size(v))>>)

\* Vector::push_back and Vector::emplace_back: growShrinkAux when full, then
\* new (finish_) T(...).
pushBackSteps(v) ==
    IF v.fin = v.eos
    THEN InNewBlock(capacity(v) * 2 + 1,
                    growShrinkAuxSteps(v, capacity(v) * 2 + 1).steps
                        \o <<Step("construct", v.fin, v.fin + 1)>>)
    ELSE InPlace(<<Step("construct", v.fin, v.fin + 1)>>)

\* Vector::pop_back(): --finish_; std::destroy_at(finish_).
popBackSteps(v) == InPlace(<<Step("destroy", v.fin - 1, v.fin)>>)

\* Vector::insertExpandAux and Vector::insertRangeExpandAux with count new
\* elements at offset: the elements before pos, the new ones, the elements
\* from pos on, each built in the new block of sz slots.
expandSteps(v, offset, count, sz) ==
    InNewBlock(sz, <<Step("construct", 0, offset),
                     Step("construct", offset, offset + count),
                     Step("construct", offset + count, size(v) + count)>>)

\* Vector::insert(pos, value), both overloads, and Vector::emplace.
insertOneSteps(v, p) ==
    IF v.fin # v.eos THEN
        IF p = v.fin THEN InPlace(<<Step("construct", v.fin, v.fin + 1)>>)
        ELSE InPlace(<<Step("read", v.fin - 1, v.fin),
                       Step("construct", v.fin, v.fin + 1),
                       Step("read", p, v.fin - 1),
                       Step("assign", p + 1, v.fin),
                       Step("assign", p, p + 1)>>)
    ELSE expandSteps(v, p, 1, size(v) * 2 + 1)

\* Vector::insert(pos, count, value).
insertNSteps(v, p, count) ==
    LET fin == v.fin
        m == fin - p
    IN  IF count = 0 THEN InPlace(<<>>)
        ELSE IF count = 1 THEN insertOneSteps(v, p)
        ELSE IF fin + count <= v.eos THEN
            IF p = fin THEN InPlace(<<Step("construct", fin, fin + count)>>)
            ELSE IF count = m THEN
                InPlace(<<Step("read", p, fin),
                          Step("construct", fin, fin + m),
                          Step("assign", p, p + count)>>)
            ELSE IF count < m THEN
                InPlace(<<Step("read", fin - count, fin),
                          Step("construct", fin, fin + count),
                          Step("read", p, fin - count),
                          Step("assign", p + count, fin),
                          Step("assign", p, fin - count)>>)
            ELSE
                InPlace(<<Step("read", p, fin),
                          Step("construct", fin + (count - m), fin + count),
                          Step("assign", p, fin),
                          Step("construct", fin, fin + (count - m))>>)
        ELSE expandSteps(v, p, count, size(v) + Max(count, size(v)) + 1)

\* Vector::insertRangeAux(pos, first, last, std::forward_iterator_tag) for a
\* range of count > 0 elements.
insertRangeFwdSteps(v, pos, count) ==
    LET fin == v.fin
        m == fin - pos
    IN  IF fin + count <= v.eos THEN
            IF pos = fin THEN InPlace(<<Step("construct", fin, fin + count)>>)
            ELSE IF count = m THEN
                InPlace(<<Step("read", pos, fin),
                          Step("construct", fin, fin + m),
                          Step("assign", fin, fin + count)>>)
            ELSE IF count < m THEN
                InPlace(<<Step("read", fin - count, fin),
                          Step("construct", fin, fin + count),
                          Step("read", pos, fin - count),
                          Step("assign", pos + count, fin),
                          Step("assign", pos, pos + count)>>)
            ELSE
                InPlace(<<Step("read", pos, fin),
                          Step("construct", fin + (count - m), fin + count),
                          Step("assign", pos, pos + m),
                          Step("construct", fin, fin + (count - m))>>)
        ELSE expandSteps(v, pos, count, size(v) + Max(count, size(v)) + 1)

\* Vector::erase(pos).
eraseSteps(v, p) ==
    InPlace((IF p + 1 # v.fin
             THEN <<Step("read", p + 1, v.fin), Step("assign", p, v.fin - 1)>>
             ELSE <<>>)
            \o <<Step("destroy", v.fin - 1, v.fin)>>)

\* Vector::erase(first, last).
eraseRangeSteps(v, pfirst, plast) ==
    IF pfirst = plast THEN InPlace(<<>>)
    ELSE IF plast = v.fin THEN InPlace(<<Step("destroy", pfirst, plast)>>)
    ELSE InPlace(<<Step("read", plast, v.fin),
                   Step("assign", pfirst, pfirst + (v.fin - plast)),
                   Step("destroy", pfirst + (v.fin - plast), v.fin)>>)

\* Vector::resize(new_size).
resizeSteps(v, new_size) ==
    IF new_size < size(v) THEN InPlace(<<Step("destroy", new_size, v.fin)>>)
    ELSE IF new_size > size(v) /\ new_size < capacity(v) THEN
        InPlace(<<Step("construct", v.fin, new_size)>>)
    ELSE InNewBlock(new_size,
                    growShrinkAuxSteps(v, new_size).steps
                        \o <<Step("construct", size(v), new_size)>>)

\* Vector::reserve(new_cap) and Vector::shrink().
reserveSteps(v, new_cap) ==
    IF new_cap > capacity(v) THEN growShrinkAuxSteps(v, new_cap) ELSE InPlace(<<>>)
shrinkSteps(v) == growShrinkAuxSteps(v, size(v))

\* Vector::assign(count, value), and Vector::assign(first, last) for
\* forward iterators and Vector::assign(initializer_list), which take the
\* same steps for count elements.
assignSteps(v, count) ==
    IF count > capacity(v) THEN InNewBlock(count, <<Step("construct", 0, count)>>)
    ELSE IF count > size(v) THEN
        InPlace(<<Step("assign", 0, v.fin), Step("construct", v.fin, count)>>)
    ELSE InPlace(<<Step("assign", 0, count)>> \o eraseRangeSteps(v, count, v.fin).steps)

\* The constructors: create(n) and the construction of got elements.
constructSteps(n, got) == InNewBlock(n, <<Step("construct", 0, got)>>)

----------------------------------------------------------------------------
\* The record of a call: the member function, its arguments, the vector
\* before the call, what it threw and the iterator it returned (as an offset
\* from begin()).  For swap and the assignment operators: src is the other
\* vector before the call, other is the other vector after it, other_alloc
\* the allocator it holds after it, and tmp is the operator's temporary
\* after its destructor has run.

Call(op, pos, last, count, vals, pre, r) ==
    [op |-> op, pos |-> pos, last |-> last, count |-> count, vals |-> vals,
     pre |-> pre, src |-> EmptyVec, other |-> EmptyVec, tmp |-> EmptyVec,
     other_alloc |-> "other", fresh_by |-> "own", tmp_by |-> "own",
     threw |-> r.threw, ret |-> r.ret]

NoCall == [op |-> "none", pos |-> 0, last |-> 0, count |-> 0, vals |-> <<>>,
           pre |-> EmptyVec, src |-> EmptyVec, other |-> EmptyVec,
           tmp |-> EmptyVec, other_alloc |-> "other", fresh_by |-> "own",
           tmp_by |-> "own", threw |-> "none", ret |-> -1]

\* The caller may start a call: no call is in progress and the vector does
\* not point at released storage.
Ready == call.op = "none" /\ start_ # "freed"

\* The vector after the call is r.v.
BecomesVec(r) ==
    /\ start_' = r.v.p
    /\ mem' = r.v.mem
    /\ finish_' = r.v.fin
    /\ end_of_storage_' = r.v.eos
    /\ UNCHANGED kind

\* The vector after the call is r.v, holding the allocator a.
BecomesWith(r, a) ==
    /\ BecomesVec(r)
    /\ allocator_' = a
    /\ UNCHANGED pushed

Becomes(r) == BecomesWith(r, allocator_)

\* The points of failure of a call that makes n constructing steps that may
\* throw when none does: none (0), the allocation (-1), or the i-th step.
FailPoints(n) == -1..n

\* The outcomes of realloc(p, 0) to consider in a call of growShrinkAux(sz).
Realloc0For(sz) == IF Relocatable(kind) /\ sz = 0 THEN Realloc0 ELSE {"unique"}

\* The indeterminate values to consider when resize constructs elements.
JunkFor(new_size) ==
    IF TriviallyCopyable(kind) /\ new_size > finish_ THEN Values ELSE {DefaultVal}

Init ==
    /\ kind \in Kinds
    /\ start_ = "null"
    /\ mem = NewBlock(0)
    /\ finish_ = 0
    /\ end_of_storage_ = 0
    /\ allocator_ = "own"
    /\ pushed = <<>>
    /\ call = NoCall

PushBack ==
    /\ Ready
    /\ finish_ = end_of_storage_ => capacity(Self) * 2 + 1 <= MaxCap
    /\ \E e \in Values, byMove \in BOOLEAN :
          \E fail \in FailPoints(push_back(kind, Self, e, byMove, 0).used) :
          LET r == push_back(kind, Self, e, byMove, fail)
          IN  /\ Becomes(r)
              /\ call' = [Call(IF byMove THEN "push_back_move" ELSE "push_back",
                               finish_, 0, 1, <<e>>, Self, r)
                             EXCEPT !.tmp = IF finish_ = end_of_storage_
                                    THEN growShrinkAuxScratch(kind, Self, capacity(Self) * 2 + 1, fail)
                                    ELSE NoScratch]

PopBack ==
    /\ Ready
    /\ finish_ > 0
    /\ LET r == pop_back(Self)
       IN  /\ Becomes(r)
           /\ call' = Call("pop_back", 0, 0, 0, <<>>, Self, r)

EmplaceBack ==
    /\ Ready
    /\ finish_ = end_of_storage_ => capacity(Self) * 2 + 1 <= MaxCap
    /\ \E x \in Values :
          \E fail \in FailPoints(emplace_back(kind, Self, x, 0).used) :
          LET r == emplace_back(kind, Self, x, fail)
          IN  /\ Becomes(r)
              /\ call' = [Call("emplace_back", finish_, 0, 1, <<x>>, Self, r)
                             EXCEPT !.tmp = IF finish_ = end_of_storage_
                                    THEN growShrinkAuxScratch(kind, Self, capacity(Self) * 2 + 1, fail)
                                    ELSE NoScratch]

\* insert(pos, value) with a value that is an object outside the vector.
Insert ==
    /\ Ready
    /\ finish_ = end_of_storage_ => size(Self) * 2 + 1 <= MaxCap
    /\ \E p \in 0..finish_, x \in Values :
          \E fail \in FailPoints(insert(kind, Self, p, x, -1, 0).used) :
          LET r == insert(kind, Self, p, x, -1, fail)
          IN  /\ Becomes(r)
              /\ call' = [Call("insert", p, 0, 1, <<x>>, Self, r)
                             EXCEPT !.tmp = insertOneScratch(kind, Self, p, x,
                                                             CopyThrows(kind), fail)]

\* insert(pos, value) and insert(pos, 1, value) with a value that is the
\* vector's own element at offset alias, at the front and at the end.
InsertAlias ==
    /\ Ready
    /\ \E p \in {0, finish_}, alias \in 0..(finish_ - 1), count1 \in BOOLEAN :
          LET x == mem[alias]
              r == IF count1 THEN insertN(kind, Self, p, 1, x, alias, 0)
                   ELSE insert(kind, Self, p, x, alias, 0)
          IN  /\ Becomes(r)
              /\ call' = Call(IF count1 THEN "insert_n_alias" ELSE "insert_alias",
                              p, alias, 1, <<x>>, Self, r)

\* What a read through a reference into a released block may find: any
\* value, or a moved-from element where growShrinkAux moves the elements.
Dangling(k) == IF TriviallyCopyable(k) \/ MoveThrows(k) THEN Values
               ELSE Values \cup {MovedFrom}

\* push_back(v[alias]).
PushBackAlias ==
    /\ Ready
    /\ finish_ = end_of_storage_ => capacity(Self) * 2 + 1 <= MaxCap
    /\ \E alias \in 0..(finish_ - 1) :
       \E seen \in IF finish_ = end_of_storage_ THEN Dangling(kind) ELSE {mem[alias]} :
       \E fail \in FailPoints(pushBackAlias(kind, Self, alias, seen, 0).used) :
          LET r == pushBackAlias(kind, Self, alias, seen, fail)
          IN  /\ Becomes(r)
              /\ call' = [Call("push_back_alias", alias, 0, 1, <<mem[alias]>>, Self, r)
                             EXCEPT !.tmp = growShrinkAuxScratch(kind, Self,
                                                capacity(Self) * 2 + 1, fail)]

InsertMove ==
    /\ Ready
    /\ finish_ = end_of_storage_ => size(Self) * 2 + 1 <= MaxCap
    /\ \E p \in 0..finish_, x \in Values :
          \E fail \in FailPoints(insertMove(kind, Self, p, x, 0).used) :
          LET r == insertMove(kind, Self, p, x, fail)
          IN  /\ Becomes(r)
              /\ call' = [Call("insert_move", p, 0, 1, <<x>>, Self, r)
                             EXCEPT !.tmp = insertOneScratch(kind, Self, p, x,
                                                             MoveThrows(kind), fail)]

Emplace ==
    /\ Ready
    /\ finish_ = end_of_storage_ => size(Self) * 2 + 1 <= MaxCap
    /\ \E p \in 0..finish_, x \in Values :
          \E fail \in FailPoints(emplace(kind, Self, p, x, 0).used) :
          LET r == emplace(kind, Self, p, x, fail)
          IN  /\ Becomes(r)
              /\ call' = [Call("emplace", p, 0, 1, <<x>>, Self, r)
                             EXCEPT !.tmp = insertOneScratch(kind, Self, p, x, TRUE, fail)]

Erase ==
    /\ Ready
    /\ \E p \in 0..(finish_ - 1) :
          LET r == erase(kind, Self, p)
          IN  /\ Becomes(r)
              /\ call' = Call("erase", p, p + 1, 0, <<>>, Self, r)

EraseRange ==
    /\ Ready
    /\ \E pfirst \in 0..finish_ : \E plast \in pfirst..finish_ :
          LET r == eraseRange(kind, Self, pfirst, plast)
          IN  /\ Becomes(r)
              /\ call' = Call("erase_range", pfirst, plast, 0, <<>>, Self, r)

Clear ==
    /\ Ready
    /\ LET r == clear(Self)
       IN  /\ Becomes(r)
           /\ call' = Call("clear", 0, 0, 0, <<>>, Self, r)

\* The ranges handed to insert and assign.
Ranges == UNION {[1..n -> Values] : n \in 0..MaxIns}

IterCats == {"input", "forward"}

InsertN ==
    /\ Ready
    /\ \E p \in 0..finish_, count \in 0..MaxIns, x \in Values :
          \E fail \in FailPoints(insertN(kind, Self, p, count, x, -1, 0).used) :
          LET r == insertN(kind, Self, p, count, x, -1, fail)
          IN  /\ capacity(r.v) <= MaxCap
              /\ Becomes(r)
              /\ call' = [Call("insert_n", p, 0, count, Copies(count, x), Self, r)
                             EXCEPT !.tmp = insertNScratch(kind, Self, p, count, x, fail)]

InsertRange ==
    /\ Ready
    /\ \E p \in 0..finish_, xs \in Ranges, cat \in IterCats :
          \E fail \in FailPoints(insertRange(kind, Self, p, xs, cat, 0).used) :
          LET r == insertRange(kind, Self, p, xs, cat, fail)
          IN  /\ capacity(r.v) <= MaxCap
              /\ Becomes(r)
              /\ call' = [Call(IF cat = "input" THEN "insert_range_input"
                               ELSE "insert_range",
                               p, 0, Len(xs), xs, Self, r)
                             EXCEPT !.tmp =
                                 IF cat = "forward" /\ finish_ + Len(xs) > end_of_storage_
                                 THEN insertRangeExpandAuxScratch(kind, Self, p, xs,
                                                                  CopyThrows(kind), fail)
                                 ELSE NoScratch]

\* The element counts a caller asks reserve for: those the memory can hold,
\* the largest SizeType, and counts beyond it, which reach reserve
\* converted to SizeType.
Requests == (0..MaxCap) \cup {maxSize, maxSize + 1, maxSize + 1 + MaxCap}

\* reserve(n).  A block of more than MaxCap slots is more than the memory
\* holds: its allocation fails.
Reserve ==
    /\ Ready
    /\ \E n \in Requests :
          \E fail \in FailPoints(reserve(kind, Self, ToSizeType(n), 0).used) :
          LET r == reserve(kind, Self, ToSizeType(n), fail)
          IN  /\ ToSizeType(n) > MaxCap => fail = -1
              /\ Becomes(r)
              /\ call' = [Call("reserve", 0, 0, n, <<>>, Self, r)
                             EXCEPT !.tmp =
                                 IF ToSizeType(n) <= maxSize /\ ToSizeType(n) > capacity(Self)
                                 THEN growShrinkAuxScratch(kind, Self, ToSizeType(n), fail)
                                 ELSE NoScratch]

Shrink ==
    /\ Ready
    /\ \E r0 \in Realloc0For(finish_),
          fail \in FailPoints(shrink(kind, Self, 0, "unique").used) :
          LET r == shrink(kind, Self, fail, r0)
          IN  /\ Becomes(r)
              /\ call' = [Call("shrink", 0, 0, 0, <<>>, Self, r)
                             EXCEPT !.tmp = growShrinkAuxScratch(kind, Self, size(Self), fail)]

Resize ==
    /\ Ready
    /\ \E new_size \in 0..MaxCap :
          \E junk \in JunkFor(new_size), r0 \in Realloc0For(new_size),
             fail \in FailPoints(resize(kind, Self, new_size, DefaultVal, 0, "unique").used) :
          LET r == resize(kind, Self, new_size, junk, fail, r0)
          IN  /\ Becomes(r)
              /\ call' = [Call("resize", 0, 0, new_size, <<>>, Self, r)
                             EXCEPT !.tmp =
                                 IF new_size < size(Self)
                                    \/ (new_size > size(Self) /\ new_size < capacity(Self))
                                 THEN NoScratch
                                 ELSE growShrinkAuxScratch(kind, Self, new_size, fail)]

AssignN ==
    /\ Ready
    /\ \E count \in 0..MaxIns, x \in Values :
          \E fail \in FailPoints(assignN(kind, Self, count, x, 0).used) :
          LET r == assignN(kind, Self, count, x, fail)
              viaTmp == count > capacity(Self) /\ r.threw = "none"
              al == swapAllocators(allocator_, allocator_)
          IN  /\ BecomesWith(r, IF viaTmp THEN al[2] ELSE allocator_)
              /\ call' = [Call("assign_n", 0, 0, count, Copies(count, x), Self, r)
                             EXCEPT !.tmp = IF viaTmp THEN destroyVector(Self)
                                            ELSE IF count > capacity(Self)
                                            THEN createScratch(count, r) ELSE @,
                                    !.tmp_by = IF viaTmp THEN al[1] ELSE @]

\* assign(first, last) builds its temporary with a default-constructed
\* allocator, assign(initializer_list) with a copy of the vector's own.
AssignRange ==
    /\ Ready
    /\ \E xs \in Ranges, cat \in IterCats :
          \E fail \in FailPoints((IF cat = "input" THEN assignInput(kind, Self, xs, 0)
                           ELSE assignFwd(kind, Self, xs, 0)).used) :
          \E r \in {IF cat = "input" THEN assignInput(kind, Self, xs, fail)
                     ELSE assignFwd(kind, Self, xs, fail)} :
          \E viaTmp \in {cat = "forward" /\ Len(xs) > capacity(Self)} :
          \E with \in IF viaTmp /\ r.threw = "none" THEN {"default", "own"} ELSE {"own"} :
          \E al \in {swapAllocators(with, allocator_)} :
              /\ capacity(r.v) <= MaxCap
              /\ BecomesWith(r, IF viaTmp /\ r.threw = "none" THEN al[2] ELSE allocator_)
              /\ call' = [Call(IF cat = "input" THEN "assign_range_input"
                               ELSE "assign_range",
                               0, 0, Len(xs), xs, Self, r)
                             EXCEPT !.tmp = IF ~viaTmp THEN @
                                            ELSE IF r.threw = "none" THEN destroyVector(Self)
                                            ELSE createScratch(Len(xs), r),
                                    !.tmp_by = IF viaTmp /\ r.threw = "none" THEN al[1] ELSE @,
                                    !.fresh_by = with]

\* The indices handed to at: those of the elements, the first ones past
\* them, and the largest SizeType (which is what at(-1) passes).
Indices == (0..(MaxCap + 1)) \cup {maxSize}

\* at(n); vals is the value read through the reference returned.
At ==
    /\ Ready
    /\ \E n \in Indices :
          LET r == at(Self, n)
          IN  /\ Becomes(r)
              /\ call' = Call("at", n, 0, 0,
                              IF r.threw = "none" THEN <<subscript(r.v, r.ret)>>
                              ELSE <<>>,
                              Self, r)

\* The other vector of swap and of the assignment operators: any vector of
\* up to MaxIns slots.
Others ==
    {Vec(IF c = 0 THEN "null" ELSE "other",
         [i \in 0..(c - 1) |-> IF i < Len(xs) THEN xs[i + 1] ELSE Raw], Len(xs), c) :
        <<c, xs>> \in {cx \in (0..MaxIns) \X Ranges : Len(cx[2]) <= cx[1]}}

\* The constructors.  A vector is constructed where there is none yet, or
\* in the place of an empty one that holds no block; when the constructor
\* throws, no vector comes into being and the place stays as it was.
Constructible == Ready /\ Self = EmptyVec

ConstructN ==
    /\ Constructible
    /\ \E count \in 0..MaxIns, x \in Values :
          \E fail \in FailPoints(constructN(kind, count, x, 0).used) :
          LET r == constructN(kind, count, x, fail)
          IN  /\ Becomes(r)
              /\ call' = [Call("construct_n", 0, 0, count, Copies(count, x), Self, r)
                             EXCEPT !.tmp = createScratch(count, r)]

ConstructDefault ==
    /\ Constructible
    /\ \E count \in 0..MaxIns :
          \E junk \in JunkFor(count),
             fail \in FailPoints(constructDefault(kind, count, DefaultVal, 0).used) :
          LET r == constructDefault(kind, count, junk, fail)
          IN  /\ Becomes(r)
              /\ call' = [Call("construct_default", 0, 0, count, <<>>, Self, r)
                             EXCEPT !.tmp = createScratch(count, r)]

\* The kinds of iterator handed to the range constructor.
CtorCats == IterCats \cup {"single_pass"}

\* Vector(first, last), and Vector(initializer_list) which is the case of a
\* forward iterator.
ConstructRange ==
    /\ Constructible
    /\ \E xs \in Ranges, cat \in CtorCats :
          \E fail \in FailPoints(constructRange(kind, xs, cat, 0).used) :
          LET r == constructRange(kind, xs, cat, fail)
          IN  /\ Becomes(r)
              /\ call' = [Call(CASE cat = "forward" -> "construct_range"
                                 [] cat = "input" -> "construct_range_input"
                                 [] OTHER -> "construct_range_single_pass",
                               0, 0, Len(xs), xs, Self, r)
                             EXCEPT !.tmp = createScratch(Len(xs), r)]

ConstructCopy ==
    /\ Constructible
    /\ \E rhs \in Others :
          \E fail \in FailPoints(constructCopy(kind, rhs, 0).used) :
          LET r == constructCopy(kind, rhs, fail)
          IN  /\ Becomes(r)
              /\ call' = [Call("construct_copy", 0, 0, size(rhs), Contents(rhs), Self, r)
                             EXCEPT !.src = rhs, !.other = rhs,
                                    !.tmp = createScratch(size(rhs), r)]

\* Vector(Vector&& rhs): the new vector takes the pointers of rhs; its
\* allocator_ is not in the member initializer list and is
\* default-constructed.
MoveConstruct ==
    /\ Constructible
    /\ \E rhs \in Others :
          LET mc == moveConstruct(rhs)
              r == Ok(mc[1], -1, 0)
          IN  /\ BecomesWith(r, "default")
              /\ call' = [Call("move_construct", 0, 0, size(rhs), Contents(rhs), Self, r)
                             EXCEPT !.src = rhs, !.other = mc[2]]

Swap ==
    /\ Ready
    /\ \E rhs \in Others :
          LET sw == swap(Self, rhs)
              al == swapAllocators(allocator_, "other")
              r == Ok(sw[1], -1, 0)
          IN  /\ BecomesWith(r, al[1])
              /\ call' = [Call("swap", 0, 0, 0, Contents(rhs), Self, r)
                             EXCEPT !.src = rhs, !.other = sw[2],
                                    !.other_alloc = al[2]]

\* The assignment operators end with tmp.swap(*this), where tmp holds an
\* allocator default-constructed with it: that is the allocator *this holds
\* afterwards.
CopyAssign ==
    /\ Ready
    /\ \E rhs \in Others :
          \E fail \in FailPoints(copyAssign(kind, Self, rhs, 0).used) :
          LET r == copyAssign(kind, Self, rhs, fail)
          IN  /\ BecomesWith(r, IF r.threw = "none"
                                THEN swapAllocators("default", allocator_)[2]
                                ELSE allocator_)
              /\ call' = [Call("copy_assign", 0, 0, 0, Contents(rhs), Self, r)
                             EXCEPT !.src = rhs, !.other = rhs,
                                    !.fresh_by = "default",
                                    !.tmp = IF r.threw = "none"
                                            THEN destroyVector(Self)
                                            ELSE createScratch(size(rhs), r),
                                    !.tmp_by = IF r.threw = "none"
                                               THEN swapAllocators("default", allocator_)[1]
                                               ELSE @]

MoveAssign ==
    /\ Ready
    /\ \E rhs \in Others :
          LET r == moveAssign(Self, rhs)
          IN  /\ BecomesWith(r, swapAllocators("default", allocator_)[2])
              /\ call' = [Call("move_assign", 0, 0, 0, Contents(rhs), Self, r)
                             EXCEPT !.src = rhs,
                                    !.other = moveAssignSteps(Self, rhs).rhs,
                                    !.tmp = moveAssignSteps(Self, rhs).tmp,
                                    !.tmp_by = swapAllocators("default", allocator_)[1]]

\* The call returns to the caller (normally or by exception).  From now on
\* the block the vector holds is the one it owns at the start of a call.
Return ==
    /\ call.op # "none"
    /\ call' = NoCall
    /\ start_' = IF start_ \in {"fresh", "other"} THEN "heap" ELSE start_
    /\ allocator_' = "own"
    /\ UNCHANGED <<kind, mem, finish_, end_of_storage_, pushed>>

Next ==
    \/ PushBack
    \/ PopBack
    \/ EmplaceBack
    \/ Insert
    \/ InsertAlias
    \/ PushBackAlias
    \/ InsertMove
    \/ Emplace
    \/ Erase
    \/ EraseRange
    \/ Clear
    \/ InsertN
    \/ InsertRange
    \/ Reserve
    \/ Shrink
    \/ Resize
    \/ AssignN
    \/ AssignRange
    \/ Swap
    \/ CopyAssign
    \/ MoveAssign
    \/ At
    \/ ConstructN
    \/ ConstructDefault
    \/ ConstructRange
    \/ ConstructCopy
    \/ MoveConstruct
    \/ Return

Spec == Init /\ [][Next]_vars

\* The life of a vector to its end: ~Vector() runs when the vector goes out
\* of scope; nothing can be called on it afterwards.
Destruct ==
    /\ Ready
    /\ LET r == Ok(destroyVector(Self), -1, 0)
       IN  /\ Becomes(r)
           /\ call' = Call("destroy", 0, 0, 0, <<>>, Self, r)

\* reserve(n) for every n of SizeType, on a vector built by Vector(count,
\* value).  The memory holds MaxBytes bytes: malloc and realloc fail when
\* asked for more, and so does an allocator asked for more objects than
\* fit in them.
MaxBytes == MaxCap * SizeOfT

ReserveBytes ==
    /\ Ready
    /\ \E n \in 0..maxSize :
       \E r0 \in IF Relocatable(kind) /\ ByteSize(n) = 0 THEN Realloc0 ELSE {"unique"} :
       \E fail \in FailPoints(reserveBytes(kind, Self, n, 0, r0).used) :
          LET r == reserveBytes(kind, Self, n, fail, r0)
              asked == IF Relocatable(kind) THEN ByteSize(n) ELSE n * SizeOfT
          IN  /\ asked > MaxBytes => fail = -1
              /\ Becomes(r)
              /\ call' = Call("reserve", 0, 0, n, <<>>, Self, r)

NextReserve ==
    \/ ConstructN
    \/ ReserveBytes
    \/ Return

ReserveSpec == Init /\ [][NextReserve]_vars

NextLife == Next \/ Destruct

LifeSpec == Init /\ [][NextLife]_vars

----------------------------------------------------------------------------
\* A run of push_back and pop_back calls on a vector that starts empty, with
\* the caller's account of it in pushed: a push_back that returns adds its
\* value, a pop_back (called only when the account is not empty) drops the
\* newest one.

SeqPushBack ==
    /\ Ready
    /\ finish_ = end_of_storage_ => capacity(Self) * 2 + 1 <= MaxCap
    /\ \E e \in Values, byMove \in BOOLEAN :
          \E fail \in FailPoints(push_back(kind, Self, e, byMove, 0).used) :
          LET r == push_back(kind, Self, e, byMove, fail)
          IN  /\ BecomesVec(r)
              /\ call' = Call(IF byMove THEN "push_back_move" ELSE "push_back",
                              finish_, 0, 1, <<e>>, Self, r)
              /\ pushed' = IF r.threw = "none" THEN Append(pushed, e) ELSE pushed
              /\ UNCHANGED allocator_

SeqPopBack ==
    /\ Ready
    /\ pushed # <<>>
    /\ LET r == pop_back(Self)
       IN  /\ BecomesVec(r)
           /\ call' = Call("pop_back", 0, 0, 0, <<>>, Self, r)
           /\ pushed' = SubSeq(pushed, 1, Len(pushed) - 1)
           /\ UNCHANGED allocator_

NextPushPop ==
    \/ SeqPushBack
    \/ SeqPopBack
    \/ Return

PushPopSpec == Init /\ [][NextPushPop]_vars

----------------------------------------------------------------------------
\* A run of appends (push_back, both overloads, and emplace_back) to a vector
\* that starts empty.  Here pushed is the caller's account of the calls made:
\* for each one the value handed over and whether capacity() differed after
\* the call.

\* The number of appends in a run.
MaxAppend == 7

\* The values appended: growth does not depend on the value, so one will do.
AppendValues == {DefaultVal}

AppendBack ==
    /\ Ready
    /\ Len(pushed) < MaxAppend
    /\ finish_ = end_of_storage_ => capacity(Self) * 2 + 1 <= MaxAppend
    /\ \E e \in AppendValues, how \in {"push_back", "push_back_move", "emplace_back"} :
          \E fail \in FailPoints((IF how = "emplace_back"
                                  THEN emplace_back(kind, Self, e, 0)
                                  ELSE push_back(kind, Self, e, how = "push_back_move", 0)).used) :
          LET r == IF how = "emplace_back" THEN emplace_back(kind, Self, e, fail)
                   ELSE push_back(kind, Self, e, how = "push_back_move", fail)
          IN  /\ BecomesVec(r)
              /\ call' = Call(how, finish_, 0, 1, <<e>>, Self, r)
              /\ pushed' = Append(pushed, <<e, capacity(r.v) # capacity(Self)>>)
              /\ UNCHANGED allocator_

NextAppend ==
    \/ AppendBack
    \/ Return

AppendSpec == Init /\ [][NextAppend]_vars

----------------------------------------------------------------------------
\* algo::Stack<T, Vector<T>> (src/src/stack.hpp): its one member c_ is the
\* vector of this model, and Stack() leaves it empty.  Every member function
\* forwards to one of the container.

\* Fault: top() that returns c_.front().
Stack_topFront(c) == front(c)

\* Stack::top(): c_.back().
Stack_top(c) == back(c)

\* Stack::empty() and Stack::size().
Stack_empty(c) == empty(c)
Stack_size(c) == size(c)

\* Stack::push(const T&) (byMove = FALSE) and Stack::push(T&&).
Stack_push(k, c, value, byMove, fail) == push_back(k, c, value, byMove, fail)

\* Stack::emplace(args...): returns what c_.emplace_back returns.
Stack_emplace(k, c, x, fail) == emplace_back(k, c, x, fail)

\* Stack::pop(): c_.pop_back().
Stack_pop(c) == pop_back(c)

\* A run of calls on a stack that starts empty, with the caller's account of
\* it in pushed.

StackPush ==
    /\ Ready
    /\ finish_ = end_of_storage_ => capacity(Self) * 2 + 1 <= MaxCap
    /\ \E value \in Values, byMove \in BOOLEAN :
          \E fail \in FailPoints(Stack_push(kind, Self, value, byMove, 0).used) :
          LET r == Stack_push(kind, Self, value, byMove, fail)
          IN  /\ BecomesVec(r)
              /\ call' = Call(IF byMove THEN "stack_push_move" ELSE "stack_push",
                              finish_, 0, 1, <<value>>, Self, r)
              /\ pushed' = IF r.threw = "none" THEN Append(pushed, value) ELSE pushed
              /\ UNCHANGED allocator_

StackEmplace ==
    /\ Ready
    /\ finish_ = end_of_storage_ => capacity(Self) * 2 + 1 <= MaxCap
    /\ \E x \in Values :
          \E fail \in FailPoints(Stack_emplace(kind, Self, x, 0).used) :
          LET r == Stack_emplace(kind, Self, x, fail)
          IN  /\ BecomesVec(r)
              /\ call' = Call("stack_emplace", finish_, 0, 1, <<x>>, Self, r)
              /\ pushed' = IF r.threw = "none" THEN Append(pushed, x) ELSE pushed
              /\ UNCHANGED allocator_

\* pop(), which the caller makes on a stack it has not emptied; vals is
\* what top() gave just before.
StackPop ==
    /\ Ready
    /\ pushed # <<>>
    /\ LET r == Stack_pop(Self)
       IN  /\ BecomesVec(r)
           /\ call' = Call("stack_pop", 0, 0, 0, <<Stack_top(Self)>>, Self, r)
           /\ pushed' = SubSeq(pushed, 1, Len(pushed) - 1)
           /\ UNCHANGED allocator_

NextStack ==
    \/ StackPush
    \/ StackEmplace
    \/ StackPop
    \/ Return

StackSpec == Init /\ [][NextStack]_vars

----------------------------------------------------------------------------
\* Properties.  A property about a call reads the record of the call that
\* has just been made: call.pre is the vector before it, Self the vector
\* after it.

\* The sequence s with the sequence xs inserted before its element at offset pos.
InsertedAt(s, pos, xs) == SubSeq(s, 1, pos) \o xs \o SubSeq(s, pos + 1, Len(s))

\* The sequence s without its elements at the offsets [first, last).
Removed(s, first, last) == SubSeq(s, 1, first) \o SubSeq(s, last + 1, Len(s))

\* The call has left the vector as it was for its user: the same size, the
\* same capacity, and the same elements, none of them newly moved-from.
Untouched ==
    /\ size(Self) = size(call.pre)
    /\ capacity(Self) = capacity(call.pre)
    /\ Contents(Self) = Contents(call.pre)

\* Every element is as it was before the call, or has been moved from.
SameOrMovedFrom ==
    /\ size(Self) = size(call.pre)
    /\ \A i \in 1..size(Self) :
          Contents(Self)[i] \in {Contents(call.pre)[i], MovedFrom}

C2_PushBackStrongGuarantee ==
    (/\ call.op \in {"push_back", "push_back_move"}
     /\ call.threw = "ctor"
     /\ size(call.pre) = capacity(call.pre)) => Untouched

\* C2, as far as the code honours it: the size and the elements are
\* unchanged, and the capacity is either unchanged or already 2c + 1 (the
\* new element's constructor threw after growShrinkAux had reallocated).
C2_PushBackKeepsElements ==
    (/\ call.op \in {"push_back", "push_back_move"}
     /\ call.threw = "ctor"
     /\ size(call.pre) = capacity(call.pre)) =>
        /\ size(Self) = size(call.pre)
        /\ Contents(Self) = Contents(call.pre)
        /\ capacity(Self) \in {capacity(call.pre), capacity(call.pre) * 2 + 1}

\* A growth-triggered push_back threw from the new element's constructor
\* and left the capacity grown.
C2_Witness ==
    /\ call.op = "push_back"
    /\ call.threw = "ctor"
    /\ size(call.pre) = capacity(call.pre)
    /\ size(call.pre) > 0
    /\ capacity(Self) = capacity(call.pre) * 2 + 1

\* C3: if the construction of the new element or the relocation of an
\* existing element throws during an insert(pos, value) or emplace(pos,
\* args...) that triggers growth (size() = capacity()), the vector is
\* unchanged: same size, capacity and element values, no existing element
\* moved-from, for every element type.
C3_InsertStrongGuarantee ==
    (/\ call.op \in {"insert", "insert_move", "emplace"}
     /\ call.threw = "ctor"
     /\ size(call.pre) = capacity(call.pre)) => Untouched

\* C3, as far as the code honours it: size and capacity are unchanged and
\* every element is as before or moved-from; only elements before pos are
\* moved-from, and none is when T's move constructor may throw (the
\* elements are then copied).
C3_InsertKeepsOrMovesFrom ==
    (/\ call.op \in {"insert", "insert_move", "emplace"}
     /\ call.threw = "ctor"
     /\ size(call.pre) = capacity(call.pre)) =>
        /\ capacity(Self) = capacity(call.pre)
        /\ SameOrMovedFrom
        /\ \A i \in (call.pos + 1)..size(Self) :
              Contents(Self)[i] = Contents(call.pre)[i]
        /\ (MoveThrows(kind) \/ call.pos = 0) => Untouched

\* A growth-triggered emplace in the middle threw and left an element
\* before pos moved-from.
C3_Witness ==
    /\ call.op = "emplace"
    /\ call.threw = "ctor"
    /\ size(call.pre) = capacity(call.pre)
    /\ call.pos > 0
    /\ Contents(call.pre)[1] # MovedFrom
    /\ Contents(Self)[1] = MovedFrom

\* The call is an insert(pos, count, value) or an insert(pos, first, last)
\* of more elements than the spare capacity holds.
RangeInsertReallocates ==
    /\ call.op \in {"insert_n", "insert_range", "insert_range_input"}
    /\ size(call.pre) + call.count > capacity(call.pre)

\* C4: if copying an inserted value or relocating an existing element throws
\* during an insert(pos, count, value) or insert(pos, first, last) that
\* exceeds the spare capacity and reallocates, the vector is in its
\* pre-operation state: same size, capacity and element values, no existing
\* element moved-from.
C4_RangeInsertStrongGuarantee ==
    (RangeInsertReallocates /\ call.threw = "ctor") => Untouched

\* C4, as far as the code honours it: no element is lost, each old element
\* is as before or moved-from; except for an input-iterator range inserted
\* at end() (inserted element by element) size and capacity are unchanged,
\* and the vector is untouched when pos is begin() or T's move constructor
\* may throw.
C4_RangeInsertKeepsOrMovesFrom ==
    (RangeInsertReallocates /\ call.threw = "ctor") =>
        /\ size(Self) >= size(call.pre)
        /\ \A i \in 1..size(call.pre) :
              Contents(Self)[i] \in {Contents(call.pre)[i], MovedFrom}
        /\ (call.op # "insert_range_input" \/ call.pos # size(call.pre)) =>
              /\ size(Self) = size(call.pre)
              /\ capacity(Self) = capacity(call.pre)
              /\ (MoveThrows(kind) \/ call.pos = 0) => Untouched

\* A reallocating insert(pos, count, value) threw and left an element
\* before pos moved-from.
C4_Witness ==
    /\ RangeInsertReallocates
    /\ call.op = "insert_n"
    /\ call.count >= 2
    /\ call.threw = "ctor"
    /\ call.pos > 0
    /\ Contents(call.pre)[1] # MovedFrom
    /\ Contents(Self)[1] = MovedFrom

\* The call has inserted call.vals before pos, and returned an iterator to
\* the first of them.
InsertedAsSpecified ==
    /\ Contents(Self) = InsertedAt(Contents(call.pre), call.pos, call.vals)
    /\ size(Self) = size(call.pre) + call.count
    /\ call.ret = call.pos

\* The inserted elements fit in the spare capacity.
FitsSpare == size(call.pre) + call.count <= capacity(call.pre)

\* The number of elements after pos.
ElemsAfter == size(call.pre) - call.pos

\* C5: insert(pos, count, value), for every pos in [begin(), end()] and
\* every count >= 0, results in the old elements before pos, count copies of
\* value, then the old elements from pos on in order; size() grows by count
\* and the iterator returned designates the first inserted element (pos when
\* count is 0); with spare capacity (count smaller than, equal to, greater
\* than the number of elements after pos) and when it reallocates.
C5_InsertCountResult ==
    (call.op = "insert_n" /\ call.threw = "none") => InsertedAsSpecified

\* C5, as far as the code honours it: size and iterator are as specified,
\* and so is the sequence unless 2 <= count < end() - pos is inserted into
\* spare capacity.
C5_InsertCountResultElsewhere ==
    (call.op = "insert_n" /\ call.threw = "none") =>
        /\ size(Self) = size(call.pre) + call.count
        /\ call.ret = call.pos
        /\ ~(FitsSpare /\ call.count >= 2 /\ call.count < ElemsAfter)
              => InsertedAsSpecified

\* Fewer copies than there are elements after pos have been inserted into
\* spare capacity, and the sequence is not the one specified.
C5_Witness ==
    /\ call.op = "insert_n"
    /\ call.threw = "none"
    /\ FitsSpare
    /\ call.count >= 2
    /\ call.count < ElemsAfter
    /\ Contents(Self) # InsertedAt(Contents(call.pre), call.pos, call.vals)

\* C6: insert(pos, first, last) with a range outside the vector, for every
\* pos in [begin(), end()], results in the old elements before pos, the
\* values of [first, last) in order, then the old elements from pos on in
\* order; size() grows by the range length and the iterator returned
\* designates the first inserted element; with spare capacity (length
\* smaller than, equal to, greater than the number of elements after pos)
\* and when it reallocates.
C6_InsertRangeResult ==
    (call.op \in {"insert_range", "insert_range_input"} /\ call.threw = "none")
        => InsertedAsSpecified

\* C6, as far as the code honours it: size and iterator are as specified,
\* and so is the sequence unless a range of exactly end() - pos > 0 elements
\* is inserted into spare capacity.
C6_InsertRangeResultElsewhere ==
    (call.op \in {"insert_range", "insert_range_input"} /\ call.threw = "none") =>
        /\ size(Self) = size(call.pre) + call.count
        /\ call.ret = call.pos
        /\ ~(FitsSpare /\ call.count >= 1 /\ call.count = ElemsAfter)
              => InsertedAsSpecified

\* A range as long as the tail after pos has been inserted into spare
\* capacity, and the sequence is not the one specified.
C6_Witness ==
    /\ call.op = "insert_range"
    /\ call.threw = "none"
    /\ FitsSpare
    /\ call.count >= 1
    /\ call.count = ElemsAfter
    /\ Contents(Self) # InsertedAt(Contents(call.pre), call.pos, call.vals)

\* C7: insert(pos, value) (copy and move overloads) and emplace(pos,
\* args...), for every pos in [begin(), end()], result in the old elements
\* before pos, the new element, then the old elements from pos on in order;
\* size() grows by exactly one and the iterator returned designates the new
\* element, with spare capacity and when size() = capacity().
C7_InsertOneResult ==
    (call.op \in {"insert", "insert_move", "emplace"} /\ call.threw = "none") =>
        /\ Contents(Self) = InsertedAt(Contents(call.pre), call.pos, call.vals)
        /\ size(Self) = size(call.pre) + 1
        /\ call.ret = call.pos
        /\ Contents(Self)[call.ret + 1] = call.vals[1]

\* An element has been inserted with spare capacity at least two elements
\* before the end (the tail is shifted by std::move_backward).
C7_Witness ==
    /\ call.op = "insert"
    /\ call.threw = "none"
    /\ size(call.pre) < capacity(call.pre)
    /\ call.pos > 0
    /\ call.pos + 2 <= size(call.pre)
    /\ Contents(Self)[call.pos] # Contents(Self)[call.pos + 1]
    /\ Contents(Self)[call.pos + 1] # Contents(Self)[call.pos + 2]

\* C8: erase(first, last) for begin() <= first <= last <= end() removes
\* exactly the elements of [first, last), keeps the others in order,
\* decreases size() by last - first, leaves capacity() unchanged and returns
\* an iterator to the element that followed the removed range (end() if the
\* range reached the end); for an empty range it changes nothing and
\* returns last.
C8_EraseRangeResult ==
    call.op = "erase_range" =>
        /\ call.threw = "none"
        /\ Contents(Self) = Removed(Contents(call.pre), call.pos, call.last)
        /\ size(Self) = size(call.pre) - (call.last - call.pos)
        /\ capacity(Self) = capacity(call.pre)
        /\ call.ret = call.pos
        /\ call.last < size(call.pre) =>
              Contents(Self)[call.ret + 1] = Contents(call.pre)[call.last + 1]
        /\ call.last = size(call.pre) => call.ret = size(Self)
        /\ call.pos = call.last => Self = call.pre /\ call.ret = call.last

\* A range of two elements, neither first nor last of the vector, has been
\* erased from a vector whose elements around it differ.
C8_Witness ==
    /\ call.op = "erase_range"
    /\ call.pos > 0
    /\ call.last = call.pos + 2
    /\ call.last < size(call.pre)
    /\ Contents(call.pre)[call.pos + 2] # Contents(call.pre)[call.last + 1]

\* C9: erase(pos) for a dereferenceable pos has the same result as
\* erase(pos, pos + 1): the element at pos is removed, the others keep their
\* order, size() decreases by one, and the iterator returned is at the index
\* of pos (end() when the last element was erased).
C9_EraseIsEraseRange ==
    call.op = "erase" =>
        LET e == eraseRange(kind, call.pre, call.pos, call.pos + 1)
        IN  /\ call.threw = e.threw
            /\ Contents(Self) = Contents(e.v)
            /\ size(Self) = size(e.v)
            /\ capacity(Self) = capacity(e.v)
            /\ call.ret = e.ret
            /\ Contents(Self) = Removed(Contents(call.pre), call.pos, call.pos + 1)
            /\ size(Self) = size(call.pre) - 1
            /\ call.ret = call.pos
            /\ call.pos = size(call.pre) - 1 => call.ret = size(Self)

\* An element that is not the last and differs from its successor has been
\* erased.
C9_Witness ==
    /\ call.op = "erase"
    /\ call.pos + 1 < size(call.pre)
    /\ Contents(call.pre)[call.pos + 1] # Contents(call.pre)[call.pos + 2]

\* C10: for every vector, every pos in [begin(), end()] and every value v
\* not aliasing the vector, insert(pos, v) followed at once by the erase of
\* the element at the same index restores the prior sequence of values and
\* the prior size().
C10_InsertThenErase ==
    (call.op = "insert" /\ call.threw = "none") =>
        LET e == erase(kind, Self, call.pos)
        IN  /\ e.threw = "none"
            /\ Contents(e.v) = Contents(call.pre)
            /\ size(e.v) = size(call.pre)

\* A value has been inserted into a full vector, before an element that
\* differs from it and after another.
C10_Witness ==
    /\ call.op = "insert"
    /\ call.threw = "none"
    /\ size(call.pre) = capacity(call.pre)
    /\ call.pos > 0
    /\ call.pos < size(call.pre)
    /\ Contents(call.pre)[call.pos + 1] # call.vals[1]
    /\ size(erase(kind, Self, call.pos).v) = size(call.pre)

\* The vector holds the block it held before the call: no allocation, no
\* reallocation, no release.
SameBlock == Self.p = call.pre.p

SameAs(v, w) ==
    /\ size(v) = size(w)
    /\ capacity(v) = capacity(w)
    /\ Contents(v) = Contents(w)

\* C13: after shrink(), capacity() = size() and size() and the element
\* values are unchanged, for every reachable vector including an empty one
\* with non-zero capacity; a second shrink() changes nothing.  (A shrink to
\* size() > 0 that the allocator refuses is outside the claim.)
C13_ShrinkResult ==
    (call.op = "shrink" /\ (call.threw = "none" \/ size(call.pre) = 0)) =>
        /\ call.threw = "none"
        /\ capacity(Self) = size(Self)
        /\ size(Self) = size(call.pre)
        /\ Contents(Self) = Contents(call.pre)
        /\ \A r0 \in Realloc0For(size(Self)) :
              LET again == shrink(kind, Self, 0, r0)
              IN  again.threw = "none" /\ SameAs(again.v, Self)

\* C13, as far as the code honours it: a shrink() that returns has made
\* capacity() = size() and kept the elements, and a second one changes
\* nothing unless it is realloc(p, 0) that serves it (trivially copyable T
\* with std::allocator, empty vector); a shrink() that throws leaves size(),
\* capacity() and the elements as they were.
C13_ShrinkWhenItReturns ==
    call.op = "shrink" =>
        /\ size(Self) = size(call.pre)
        /\ Contents(Self) = Contents(call.pre)
        /\ call.threw = "none" => capacity(Self) = size(Self)
        /\ call.threw # "none" =>
              /\ capacity(Self) = capacity(call.pre)
              /\ call.threw \in {"bad_alloc", "ctor"}
              /\ size(call.pre) = 0 => Relocatable(kind)
        /\ (call.threw = "none" /\ (size(Self) > 0 \/ ~Relocatable(kind))) =>
              LET again == shrink(kind, Self, 0, "unique")
              IN  again.threw = "none" /\ SameAs(again.v, Self)

\* shrink() of an empty vector with capacity has thrown bad_alloc, the
\* vector still pointing at the block realloc released.
C13_Witness ==
    /\ call.op = "shrink"
    /\ size(call.pre) = 0
    /\ capacity(call.pre) > 0
    /\ call.threw = "bad_alloc"
    /\ capacity(Self) > 0
    /\ Self.p = "freed"

\* The values a default-constructed element may hold: T() for a class type;
\* any value for a trivially copyable T, which `new (p) T` leaves
\* uninitialised.
DefaultConstructed == IF TriviallyCopyable(kind) THEN Values ELSE {DefaultVal}

C15_ResizeDownKeepsCapacity ==
    (call.op = "resize" /\ call.count <= size(call.pre)) =>
        /\ call.threw = "none"
        /\ size(Self) = call.count
        /\ capacity(Self) = capacity(call.pre)
        /\ SameBlock
        /\ Contents(Self) = SubSeq(Contents(call.pre), 1, call.count)

\* C15, as far as the code honours it: it holds for n < size(); resize(n)
\* with n = size() goes through growShrinkAux(n), so that when it returns
\* capacity() = n and the elements are unchanged, and when it throws the
\* size and the elements are unchanged.
C15_ResizeBelowSizeKeepsCapacity ==
    (call.op = "resize" /\ call.count <= size(call.pre)) =>
        /\ Contents(Self) = SubSeq(Contents(call.pre), 1, call.count)
        /\ call.count < size(call.pre) =>
              /\ call.threw = "none"
              /\ capacity(Self) = capacity(call.pre)
              /\ SameBlock
        /\ (call.count = size(call.pre) /\ call.threw = "none") =>
              capacity(Self) = call.count
        /\ (call.count = size(call.pre) /\ call.threw # "none") =>
              capacity(Self) = capacity(call.pre)

\* resize(size()) of a vector with spare capacity has returned with the
\* capacity reduced to the size, in another block.
C15_Witness ==
    /\ call.op = "resize"
    /\ call.count = size(call.pre)
    /\ size(call.pre) > 0
    /\ capacity(call.pre) > size(call.pre)
    /\ call.threw = "none"
    /\ capacity(Self) = size(call.pre)
    /\ Self.p = "fresh"

\* The call has replaced the contents by call.vals, in the block the vector
\* had when that block holds them, in a new block otherwise.
AssignedAsSpecified ==
    /\ size(Self) = call.count
    /\ Contents(Self) = call.vals
    /\ call.count <= capacity(call.pre) =>
          capacity(Self) = capacity(call.pre) /\ SameBlock
    /\ call.count > capacity(call.pre) =>
          capacity(Self) >= call.count /\ Self.p = "fresh"

\* C16: assign(count, value) replaces the contents with exactly count copies
\* of value; when count <= capacity() the existing buffer is reused and
\* capacity() is unchanged, and a fresh buffer is allocated only when
\* count > capacity().
C16_AssignCountResult ==
    (call.op = "assign_n" /\ call.threw = "none") =>
        /\ AssignedAsSpecified
        /\ \A i \in 1..call.count : Contents(Self)[i] = call.vals[1]

\* assign(count, value) has overwritten the elements of a vector and
\* appended to them, within its capacity.
C16_Witness ==
    /\ call.op = "assign_n"
    /\ call.threw = "none"
    /\ size(call.pre) >= 1
    /\ call.count > size(call.pre)
    /\ call.count <= capacity(call.pre)
    /\ Contents(call.pre)[1] # call.vals[1]

\* C17: assign(first, last) and assign(initializer list) replace the
\* contents with exactly the values of the given sequence in order,
\* whatever the previous size (smaller than, equal to or larger than the
\* new length); size() equals the sequence length afterwards, and
\* capacity() is unchanged whenever the length is <= the previous
\* capacity().
C17_AssignRangeResult ==
    (call.op \in {"assign_range", "assign_range_input"} /\ call.threw = "none") =>
        /\ size(Self) = Len(call.vals)
        /\ Contents(Self) = call.vals
        /\ capacity(Self) >= Len(call.vals)
        /\ Len(call.vals) <= capacity(call.pre) =>
              capacity(Self) = capacity(call.pre)

\* A range shorter than the vector, and different from its leading
\* elements, has been assigned.
C17_Witness ==
    /\ call.op = "assign_range"
    /\ call.threw = "none"
    /\ Len(call.vals) = 2
    /\ size(call.pre) > 2
    /\ call.vals[1] # call.vals[2]
    /\ Contents(call.pre)[1] # call.vals[1]

\* C18: at(i) fails with an out-of-range error exactly when i >= size()
\* (on an empty vector too), never clamps the index, leaves the vector
\* unchanged on failure, and returns the element at index i when
\* i < size().
C18_AtChecksRange ==
    call.op = "at" =>
        /\ call.threw \in {"none", "out_of_range"}
        /\ call.threw = "out_of_range" <=> call.pos >= size(call.pre)
        /\ Self = call.pre
        /\ call.pos < size(call.pre) =>
              /\ call.ret = call.pos
              /\ call.vals = <<Contents(call.pre)[call.pos + 1]>>

\* at(size()) has failed on a vector that has elements and spare capacity.
C18_Witness ==
    /\ call.op = "at"
    /\ call.pos = size(call.pre)
    /\ size(call.pre) > 0
    /\ size(call.pre) < capacity(call.pre)
    /\ call.threw = "out_of_range"

\* C19: move construction and move assignment from a distinct source leave
\* the source empty (size() = 0, capacity() = 0, no allocation) and give the
\* destination exactly the source's former sequence of values and capacity,
\* without copying or moving any element; a buffer the destination owned
\* before move assignment is released.
C19_MoveTransfersBuffer ==
    call.op = "move_assign" =>
        /\ call.threw = "none"
        /\ Self = call.src
        /\ Contents(Self) = call.vals
        /\ call.other = EmptyVec
        /\ call.tmp.p = (IF call.pre.p = "null" THEN "null" ELSE "freed")
        /\ \A i \in DOMAIN call.tmp.mem : call.tmp.mem[i] = Raw
        /\ moveConstruct(call.src) = <<call.src, EmptyVec>>

\* A vector with elements and spare capacity has been move-assigned to a
\* vector that owned a block with other elements.
C19_Witness ==
    /\ call.op = "move_assign"
    /\ size(call.src) >= 1
    /\ capacity(call.src) > size(call.src)
    /\ size(call.pre) >= 1
    /\ Contents(call.pre)[1] # Contents(call.src)[1]
    /\ Self.p = "other"
    /\ call.tmp.p = "freed"

\* The vectors v and w share no storage: they point at different blocks, or
\* at none.
Disjoint(v, w) == v.p # w.p \/ (v.p = "null" /\ w.p = "null")

\* The elements the vector w shows once the vector v has been mutated into
\* v2: its own when w and v have different blocks; when they point at the
\* same block, what v2 left in it, or freed storage when v2 moved away.
ReadThrough(w, v, v2) ==
    IF w.p # "null" /\ w.p = v.p
    THEN [i \in 1..w.fin |-> IF v2.p = v.p THEN subscript(v2, i - 1) ELSE Raw]
    ELSE Contents(w)

\* What a mutation may leave of the vector v: push_back, insert, erase, an
\* element write, clear.
Mutations(v) ==
    {push_back(kind, v, x, FALSE, 0).v : x \in Values}
    \cup {insert(kind, v, 0, x, -1, 0).v : x \in Values}
    \cup {erase(kind, v, 0).v : i \in {1} \cap (1..size(v))}
    \cup {[v EXCEPT !.mem = Put(@, 0, x)] : x \in {y \in Values : size(v) > 0}}
    \cup {clear(v).v}

\* C20: copy construction and copy assignment give the destination a
\* sequence equal to the source's in an independent buffer: the source is
\* unchanged, and any later mutation of either vector (push_back, insert,
\* erase, element write, clear) leaves the other's size and contents
\* unchanged.
C20_CopyIsIndependent ==
    (call.op = "copy_assign" /\ call.threw = "none") =>
        /\ size(Self) = size(call.src)
        /\ Contents(Self) = Contents(call.src)
        /\ call.other = call.src
        /\ Disjoint(Self, call.other)
        /\ Self.p \in {"null", "fresh"}
        /\ \A v \in Mutations(Self) :
              ReadThrough(call.other, Self, v) = Contents(call.src)
        /\ \A w \in Mutations(call.other) :
              ReadThrough(Self, call.other, w) = Contents(call.src)
        /\ LET t == construct(kind, Contents(call.src), CopyThrows(kind), 0)
           IN  /\ t.threw = "none"
               /\ Contents(t.v) = Contents(call.src)
               /\ Disjoint(t.v, call.src)

\* A vector with elements has been copy-assigned to a vector that held
\* other elements.
C20_Witness ==
    /\ call.op = "copy_assign"
    /\ call.threw = "none"
    /\ size(call.src) = 2
    /\ size(call.pre) >= 1
    /\ Contents(call.pre)[1] # Contents(call.src)[1]
    /\ Self.p = "fresh"
    /\ call.other.p = "other"

\* C21: swap(other), on Vector and forwarded by Stack::swap, exchanges the
\* two containers' contents, sizes, capacities and allocators without
\* constructing, copying or destroying any element (each vector ends up
\* pointing at the other's block, whose slots are as they were) and without
\* failing; swapping twice restores both containers to their original state.
C21_SwapExchanges ==
    (call.op = "swap") =>
        /\ call.threw = "none"
        /\ Self = call.src
        /\ call.other = call.pre
        /\ allocator_ = "other"
        /\ call.other_alloc = "own"
        /\ swap(Self, call.other) = <<call.pre, call.src>>
        /\ swapAllocators(allocator_, call.other_alloc) = <<"own", "other">>
        /\ Stack_swap(call.pre, call.src) = <<Self, call.other>>

\* Two vectors with different elements and different capacities have been
\* swapped.
C21_Witness ==
    /\ call.op = "swap"
    /\ size(call.pre) = 2
    /\ size(call.src) = 1
    /\ capacity(call.pre) = 3
    /\ capacity(call.src) = 2
    /\ Contents(call.pre)[1] # Contents(call.src)[1]

\* C22: starting from an empty Vector, after any sequence of push_back and
\* pop_back calls (pop_back only on a non-empty vector), size() equals the
\* number of push_back calls minus the number of pop_back calls (the length
\* of the account), the contents are the pushed values not yet popped in
\* push order, and back() is the most recently pushed value not yet popped.
\* Checked under PushPopSpec.
C22_PushPopAccount ==
    /\ size(Self) = Len(pushed)
    /\ Contents(Self) = pushed
    /\ pushed # <<>> => back(Self) = pushed[Len(pushed)]
    /\ pushed # <<>> => front(Self) = pushed[1]

\* Three values have been pushed (the vector has grown twice) and the last
\* one has been popped.
C22_Witness ==
    /\ call.op = "pop_back"
    /\ size(call.pre) = 3
    /\ Len(pushed) = 2
    /\ pushed[1] # pushed[2]
    /\ capacity(Self) = 3

\* C23: constructing a Vector from a range [a, b) (or an initializer list)
\* and then iterating begin()..end() reproduces exactly the sequence of
\* values of [a, b), with size() equal to the range length; reverse
\* iteration rbegin()..rend() yields the same values in reverse order.
C23_RangeConstructRoundTrip ==
    (/\ call.op \in {"construct_range", "construct_range_input",
                     "construct_range_single_pass"}
     /\ call.threw = "none") =>
        /\ size(Self) = Len(call.vals)
        /\ Iterate(Self) = call.vals
        /\ ReverseIterate(Self) = [i \in 1..Len(call.vals) |->
                                      call.vals[Len(call.vals) - i + 1]]

\* C23, what holds: the round trip for every iterator that can go over its
\* range more than once (forward iterators, initializer lists, vectors);
\* from an iterator that reads its range once the vector gets the first
\* value alone.
C23_RoundTripWhenMultiPass ==
    /\ (/\ call.op \in {"construct_range", "construct_range_input"}
        /\ call.threw = "none") =>
           /\ size(Self) = Len(call.vals)
           /\ Iterate(Self) = call.vals
           /\ ReverseIterate(Self) = [i \in 1..Len(call.vals) |->
                                         call.vals[Len(call.vals) - i + 1]]
    /\ (/\ call.op = "construct_range_single_pass"
        /\ call.threw = "none"
        /\ call.vals # <<>>) =>
           Iterate(Self) = <<call.vals[1]>>

\* A vector has been constructed from a range of two different values.
C23_Witness ==
    /\ call.op = "construct_range"
    /\ call.threw = "none"
    /\ Len(call.vals) = 2
    /\ call.vals[1] # call.vals[2]
    /\ Iterate(Self) = call.vals

\* The call is one of the constructors.
Constructing ==
    call.op \in {"construct_n", "construct_default", "construct_range",
                 "construct_range_input", "construct_range_single_pass",
                 "construct_copy"}

\* C24: every constructing operation (count copies of a value, count default
\* elements, range, initializer list, copy) produces a vector with
\* capacity() == size() == the number of requested elements, with no extra
\* slack.
C24_ConstructExact ==
    (Constructing /\ call.threw = "none") =>
        /\ size(Self) = call.count
        /\ capacity(Self) = call.count

\* C24, what holds: the capacity is always the number of requested
\* elements, and so is the size unless the range is given by iterators that
\* read it once: the vector then has one element and the rest is slack.
C24_ConstructExactWhenMultiPass ==
    (Constructing /\ call.threw = "none") =>
        /\ capacity(Self) = call.count
        /\ call.op # "construct_range_single_pass" => size(Self) = call.count
        /\ call.op = "construct_range_single_pass" =>
              size(Self) = Min(1, call.count)

\* A vector has been copy-constructed from one with spare capacity.
C24_Witness ==
    /\ call.op = "construct_copy"
    /\ call.threw = "none"
    /\ size(call.src) = 1
    /\ capacity(call.src) = 2
    /\ capacity(Self) = 1

\* Which slots of a block hold a constructed element.
Live(m) == [i \in DOMAIN m |-> m[i] # Raw]

\* A step is in order when every slot it covers is in the block and is raw
\* if the step constructs, and holds an element if it assigns, reads or
\* destroys.
StepOk(live, st) ==
    \A i \in st.s..(st.e - 1) :
        i \in DOMAIN live /\ (live[i] <=> st.op # "construct")

StepDo(live, st) ==
    [i \in DOMAIN live |->
        IF st.s <= i /\ i < st.e /\ st.op \in {"construct", "destroy"}
        THEN st.op = "construct"
        ELSE live[i]]

\* The steps taken one after the other from the slots live: whether all
\* were in order, and which slots hold an element at the end.
RECURSIVE Audit(_, _)
Audit(live, steps) ==
    IF steps = <<>> THEN [ok |-> TRUE, live |-> live]
    ELSE IF ~StepOk(live, Head(steps)) THEN [ok |-> FALSE, live |-> live]
    ELSE Audit(StepDo(live, Head(steps)), Tail(steps))

\* C25: clear() sets size() to 0, destroys every element exactly once (each
\* destroyed slot held an element, and no slot holds one afterwards) and
\* leaves capacity() and the buffer unchanged.
C25_ClearResult ==
    (call.op = "clear") =>
        /\ call.threw = "none"
        /\ size(Self) = 0
        /\ capacity(Self) = capacity(call.pre)
        /\ SameBlock
        /\ DOMAIN Self.mem = DOMAIN call.pre.mem
        /\ \A i \in DOMAIN Self.mem : Self.mem[i] = Raw
        /\ LET a == Audit(Live(call.pre.mem), clearSteps(call.pre))
           IN  a.ok /\ a.live = Live(Self.mem)

\* A vector of two elements with spare capacity has been cleared.
C25_Witness ==
    /\ call.op = "clear"
    /\ size(call.pre) = 2
    /\ capacity(call.pre) = 3
    /\ capacity(Self) = 3
    /\ Self.p = "heap"

\* C26: emplace_back(args...) appends one element constructed from args and
\* returns a reference to that element, which is the vector's new last
\* element (the same object as back()), also when the call triggers growth.
C26_EmplaceBackResult ==
    (call.op = "emplace_back" /\ call.threw = "none") =>
        /\ size(Self) = size(call.pre) + 1
        /\ Contents(Self) = Contents(call.pre) \o call.vals
        /\ call.ret = size(Self) - 1
        /\ call.ret \in DOMAIN Self.mem
        /\ subscript(Self, call.ret) = call.vals[1]
        /\ back(Self) = call.vals[1]
        /\ size(call.pre) = capacity(call.pre) =>
              /\ capacity(Self) = capacity(call.pre) * 2 + 1
              /\ Self.p = "fresh"
        /\ size(call.pre) < capacity(call.pre) =>
              /\ capacity(Self) = capacity(call.pre)
              /\ SameBlock

\* emplace_back on a full vector of one element: the storage has grown.
C26_Witness ==
    /\ call.op = "emplace_back"
    /\ call.threw = "none"
    /\ size(call.pre) = 1
    /\ capacity(call.pre) = 1
    /\ capacity(Self) = 3
    /\ call.vals[1] # Contents(call.pre)[1]

\* C27: insert(pos, value) (const-reference overload, and insert(pos, 1,
\* value) which delegates to it) called with a value that refers to an
\* element of the same vector is rejected with an error (std::range_error)
\* before any modification: size, capacity and contents are unchanged.
C27_AliasRejected ==
    (call.op \in {"insert_alias", "insert_n_alias"}) =>
        /\ call.threw = "range_error"
        /\ Untouched
        /\ SameBlock
        /\ Self.mem = call.pre.mem

\* insert(begin(), 1, value) with value the last of three elements.
C27_Witness ==
    /\ call.op = "insert_n_alias"
    /\ call.threw = "range_error"
    /\ size(call.pre) = 3
    /\ call.pos = 0
    /\ call.last = 2

\* What top() gives before each pop() when the stack c is popped until it
\* is empty.
RECURSIVE Drain(_)
Drain(c) ==
    IF Stack_empty(c) THEN <<>>
    ELSE <<Stack_top(c)>> \o Drain(Stack_pop(c).v)

Reversed(xs) == [i \in 1..Len(xs) |-> xs[Len(xs) - i + 1]]

\* C28: for a Stack starting empty and any sequence of push/emplace calls
\* (and pops), top() is always the most recently pushed element not yet
\* popped, repeated pop() yields the pushed values in exactly the reverse
\* order of pushing, size() equals pushes minus pops (the length of the
\* account), and empty() is true exactly when all pushed elements have been
\* popped.  Checked under StackSpec.
C28_StackIsLifo ==
    /\ Stack_size(Self) = Len(pushed)
    /\ Stack_empty(Self) <=> pushed = <<>>
    /\ pushed # <<>> => Stack_top(Self) = pushed[Len(pushed)]
    /\ Drain(Self) = Reversed(pushed)
    /\ call.op = "stack_pop" => call.vals = <<Contents(call.pre)[size(call.pre)]>>

\* Three values have been pushed and the last one, which differs from the
\* second, has been popped: top() is the second.
C28_Witness ==
    /\ call.op = "stack_pop"
    /\ size(call.pre) = 3
    /\ Len(pushed) = 2
    /\ pushed[1] # pushed[2]
    /\ call.vals[1] # pushed[2]
    /\ Stack_top(Self) = pushed[2]

\* The slots of v below size() hold an element (possibly a moved-from one)
\* and the slots from size() to capacity() are raw storage.
SlotsInOrder(v) ==
    /\ DOMAIN v.mem = 0..(capacity(v) - 1)
    /\ \A i \in DOMAIN v.mem : (i < size(v)) <=> (v.mem[i] # Raw)

\* The calls whose steps are audited slot by slot, and their steps. (The
\* overloads for input iterators are made of calls of these.)
StepAudited ==
    call.op \in {"push_back", "push_back_move", "emplace_back", "pop_back",
                 "insert", "insert_move", "emplace", "insert_n", "insert_range",
                 "erase", "erase_range", "clear", "resize", "reserve", "shrink",
                 "assign_n", "assign_range", "construct_n", "construct_default",
                 "construct_range", "construct_range_input",
                 "construct_range_single_pass", "construct_copy"}

CallSteps ==
    LET v == call.pre
        op == call.op
    IN  CASE op \in {"push_back", "push_back_move", "emplace_back"} -> pushBackSteps(v)
          [] op = "pop_back" -> popBackSteps(v)
          [] op \in {"insert", "insert_move", "emplace"} -> insertOneSteps(v, call.pos)
          [] op = "insert_n" -> insertNSteps(v, call.pos, call.count)
          [] op = "insert_range" -> insertRangeFwdSteps(v, call.pos, call.count)
          [] op = "erase" -> eraseSteps(v, call.pos)
          [] op = "erase_range" -> eraseRangeSteps(v, call.pos, call.last)
          [] op = "clear" -> InPlace(clearSteps(v))
          [] op = "resize" -> resizeSteps(v, call.count)
          [] op = "reserve" -> reserveSteps(v, ToSizeType(call.count))
          [] op = "shrink" -> shrinkSteps(v)
          [] op \in {"assign_n", "assign_range"} -> assignSteps(v, call.count)
          [] op = "construct_range_single_pass" ->
                constructSteps(call.count, IF call.count > 0 THEN 1 ELSE 0)
          [] OTHER -> constructSteps(call.count, call.count)

GrowOps == {"push_back", "push_back_move", "emplace_back", "reserve", "shrink", "resize"}
ExpandOps == {"insert", "insert_move", "emplace", "insert_n", "insert_range"}

\* The call threw while it was building the new block tmp.
FailedMidBuild ==
    /\ call.op \in GrowOps \cup ExpandOps
    /\ call.threw # "none"
    /\ call.tmp.p # "null"

\* C30: when a reallocating operation (push_back, emplace_back, insert,
\* emplace, reserve, shrink, resize) fails partway through building the new
\* buffer, every element already constructed in the scratch buffer is
\* destroyed and the scratch allocation is released before the error
\* propagates, and the original buffer and its elements are untouched.
C30_FailedBuildCleansUp ==
    FailedMidBuild =>
        /\ \A i \in DOMAIN call.tmp.mem : call.tmp.mem[i] = Raw
        /\ call.tmp.p = "freed"
        /\ Self = call.pre

\* C30, as the code behaves: the vector keeps its block, size and capacity.
\* With growShrinkAux the scratch block is empty and released and the vector
\* untouched.  With insertExpandAux and insertRangeExpandAux the scratch
\* block still holds the elements of the steps completed before the throw
\* (those before pos, then the new ones), none of them destroyed; it is
\* released unless T is trivially copyable; and the vector's elements are
\* untouched unless they are moved rather than copied into the scratch
\* block, in which case those before pos are left moved-from.
C30_FailedBuildAsBuilt ==
    FailedMidBuild =>
        /\ SameBlock
        /\ size(Self) = size(call.pre)
        /\ capacity(Self) = capacity(call.pre)
        /\ SlotsInOrder(call.tmp)
        /\ (call.tmp.p = "leaked") <=> TriviallyCopyable(kind)
        /\ call.op \in GrowOps => (size(call.tmp) = 0 /\ Self = call.pre)
        /\ call.op \in ExpandOps =>
              /\ size(call.tmp) \in {0, call.pos, call.pos + call.count}
              /\ \A i \in 0..(size(Self) - 1) :
                    Self.mem[i] = (IF i < call.pos /\ size(call.tmp) > 0
                                   THEN RelocSrc(kind, call.pre.mem, 0, call.pos)[i]
                                   ELSE call.pre.mem[i])
              /\ (TriviallyCopyable(kind) \/ MoveThrows(kind)) => Self = call.pre

\* insert(pos, value) before the last of two elements of a full vector whose
\* elements are copied into the scratch block: the first element and the new
\* one were constructed there, copying the last one threw, and the scratch
\* block was released with both still in it.
C30_Witness ==
    /\ call.op = "insert"
    /\ call.threw = "ctor"
    /\ kind = "throwing_move"
    /\ call.pos = 1
    /\ size(call.pre) = 2
    /\ capacity(call.pre) = 2
    /\ call.tmp.p = "freed"
    /\ size(call.tmp) = 2
    /\ Self = call.pre

\* The least k with 2^k >= n, which is ceil(log2(n)), for n >= 1.
CeilLog2(n) == CHOOSE k \in 0..n : 2 ^ k >= n /\ \A j \in 0..(k - 1) : 2 ^ j < n

\* The calls of the account over which capacity() changed.
Reallocations == Cardinality({i \in 1..Len(pushed) : pushed[i][2]})

\* C31: push_back and emplace_back leave capacity() (and the buffer)
\* unchanged when size() < capacity(), and grow to exactly 2 * capacity() + 1
\* when size() == capacity(); hence over n appends to an empty vector the
\* capacities are of the sequence 0, 1, 3, 7, ..., each reallocation takes
\* the next one, and there are at most ceil(log2(n + 1)) reallocations
\* (exactly that many, with capacity 2^that - 1, when every append returned).
C31_AppendGrowth ==
    /\ (call.op \in {"push_back", "push_back_move", "emplace_back"}) =>
          IF size(call.pre) < capacity(call.pre)
          THEN capacity(Self) = capacity(call.pre) /\ SameBlock
          ELSE \/ capacity(Self) = 2 * capacity(call.pre) + 1
               \/ call.threw # "none" /\ capacity(Self) = capacity(call.pre) /\ SameBlock
    /\ capacity(Self) = 2 ^ Reallocations - 1
    /\ Reallocations <= CeilLog2(Len(pushed) + 1)
    /\ size(Self) = Len(pushed) =>
          capacity(Self) = 2 ^ CeilLog2(Len(pushed) + 1) - 1

\* Four appends have returned: the fourth found the vector full at capacity
\* 3 and grew it to 7, the third reallocation of the run.
C31_Witness ==
    /\ call.op = "emplace_back"
    /\ call.threw = "none"
    /\ Len(pushed) = 4
    /\ size(Self) = 4
    /\ capacity(call.pre) = 3
    /\ capacity(Self) = 7
    /\ Reallocations = 3

\* A bulk insert that returned: insert(pos, k, value) with k >= 2, or
\* insert(pos, first, last) of k elements.
BulkInsert ==
    /\ call.op \in {"insert_n", "insert_range", "insert_range_input"}
    /\ call.threw = "none"
    /\ call.op = "insert_n" => call.count >= 2

\* The capacity a bulk insert of k elements leaves according to the rule.
BulkCapacity(v, k) ==
    IF size(v) + k > capacity(v) THEN size(v) + Max(k, size(v)) + 1 ELSE capacity(v)

\* The capacity left by k calls of insert(end(), value) on a vector of the
\* given capacity and size.
RECURSIVE OneByOneCapacity(_, _, _)
OneByOneCapacity(cap, sz, k) ==
    IF k = 0 THEN cap
    ELSE OneByOneCapacity(IF sz = cap THEN 2 * sz + 1 ELSE cap, sz + 1, k - 1)

\* C32: insert(pos, k, value) with k >= 2 and insert(pos, first, last) of k
\* elements set the capacity to exactly size() + max(k, size()) + 1 (size()
\* before the insert) when size() + k > capacity(), which is at least the new
\* size, and leave the capacity unchanged when size() + k <= capacity().
C32_BulkInsertCapacity ==
    BulkInsert =>
        /\ capacity(Self) = BulkCapacity(call.pre, call.count)
        /\ capacity(Self) >= size(Self)

\* C32, as the code behaves: the rule holds for insert(pos, k, value), for
\* ranges of forward iterators, and for ranges of input iterators inserted
\* before end(); a range of input iterators inserted at end() is inserted
\* one element at a time, each growing a full vector to 2 * size() + 1.
C32_BulkInsertCapacityAsBuilt ==
    BulkInsert =>
        /\ capacity(Self) =
              (IF call.op = "insert_range_input" /\ call.pos = size(call.pre)
               THEN OneByOneCapacity(capacity(call.pre), size(call.pre), call.count)
               ELSE BulkCapacity(call.pre, call.count))
        /\ capacity(Self) >= size(Self)
        /\ size(call.pre) + call.count <= capacity(call.pre) =>
              capacity(Self) = capacity(call.pre) /\ SameBlock

\* insert(pos, 2, value) into a full vector of two elements has returned
\* with capacity 2 + max(2, 2) + 1 = 5.
C32_Witness ==
    /\ call.op = "insert_n"
    /\ call.threw = "none"
    /\ call.count = 2
    /\ size(call.pre) = 2
    /\ capacity(call.pre) = 2
    /\ capacity(Self) = 5
    /\ size(Self) = 4

\* A call of an insert overload or of emplace that returned, and the blocks
\* it allocated.
InsertReturned ==
    /\ call.op \in {"insert", "insert_move", "emplace", "insert_n", "insert_range",
                     "insert_range_input"}
    /\ call.threw = "none"

InsertedBlocks == insertBlocks(kind, call.pre, call.op, call.pos, call.vals)

\* C33: a single call of any insert overload (single value, count copies,
\* range of any iterator category, initializer list) or of emplace allocates
\* at most one new buffer: the vector is never reallocated twice within one
\* call.
C33_InsertAllocatesOnce ==
    InsertReturned => Len(InsertedBlocks) <= 1

\* C33, as the code behaves: the vector keeps its block exactly when the call
\* allocates none for it and otherwise ends in the last block allocated.  Every
\* overload but the one for input iterators allocates at most one block.
\* For input iterators, a range inserted before end() allocates the block of
\* a temporary vector and at most one for the vector itself; a range
\* inserted at end() reallocates the vector once for every element that
\* finds it full.
C33_InsertAllocationsAsBuilt ==
    InsertReturned =>
        LET blocks == InsertedBlocks
            viaTmp == /\ call.op = "insert_range_input"
                      /\ call.pos # size(call.pre)
                      /\ call.count > 0
            own == IF viaTmp THEN Tail(blocks) ELSE blocks
        IN  /\ (own = <<>>) <=> SameBlock
            /\ own # <<>> => capacity(Self) = own[Len(own)]
            /\ call.op # "insert_range_input" => Len(blocks) <= 1
            /\ (call.op = "insert_range_input" /\ call.pos # size(call.pre)
                    /\ call.count > 0) =>
                  /\ Len(blocks) \in {1, 2}
                  /\ blocks[1] = call.count
            /\ (call.op = "insert_range_input" /\ call.pos = size(call.pre)) =>
                  /\ Len(blocks) <= call.count
                  /\ \A i \in 1..(Len(blocks) - 1) : blocks[i] < blocks[i + 1]

\* A range of two elements given by input iterators has been inserted at
\* end() of an empty vector: the vector was reallocated twice, to capacity 1
\* and to capacity 3.
C33_Witness ==
    /\ call.op = "insert_range_input"
    /\ call.threw = "none"
    /\ size(call.pre) = 0
    /\ capacity(call.pre) = 0
    /\ call.count = 2
    /\ InsertedBlocks = <<1, 3>>
    /\ capacity(Self) = 3

\* shrink() was called on a vector whose capacity equalled its size.
ShrinkAtSize == call.op = "shrink" /\ size(call.pre) = capacity(call.pre)

\* C34: shrink() reallocates unless capacity already equals size: when
\* capacity() == size() the call allocates nothing (so it cannot fail),
\* relocates no element and keeps the same buffer.
C34_ShrinkAtSizeKeepsBuffer ==
    ShrinkAtSize =>
        /\ call.threw = "none"
        /\ SameBlock
        /\ Self = call.pre

\* C34, as the code behaves: shrink() calls growShrinkAux(size()) whatever
\* the capacity.  When it returns, size, capacity and contents are as
\* before, but a vector that holds elements has been moved to a new block
\* (for a T reallocated with realloc: to the block realloc returns); only
\* the empty vector without a block of a T that is not reallocated with
\* realloc is left as it was.
C34_ShrinkAtSizeAsBuilt ==
    (ShrinkAtSize /\ call.threw = "none") =>
        /\ size(Self) = size(call.pre)
        /\ capacity(Self) = capacity(call.pre)
        /\ Contents(Self) = Contents(call.pre)
        /\ (size(call.pre) > 0 /\ ~Relocatable(kind)) => Self.p = "fresh"
        /\ (size(call.pre) = 0 /\ ~Relocatable(kind)) => Self = call.pre

\* shrink() on a full vector of two elements has returned: the elements are
\* in a new block of the same capacity.
C34_Witness ==
    /\ ShrinkAtSize
    /\ call.threw = "none"
    /\ size(call.pre) = 2
    /\ call.pre.p = "heap"
    /\ Self.p = "fresh"
    /\ capacity(Self) = 2
    /\ kind = "nothrow_move"

\* The calls in which a buffer changes hands, and the allocator that
\* allocated a block: the vector's block at the start of the call was
\* allocated by the allocator it then held, the other vector's by the other
\* vector's, a block allocated during the call by call.fresh_by.
Handover ==
    /\ call.op \in {"move_construct", "move_assign", "copy_assign", "assign_n",
                     "assign_range", "assign_range_input", "swap"}
    /\ call.threw = "none"

AllocatedBy(p) ==
    CASE p = "heap" -> "own"
      [] p = "other" -> "other"
      [] p = "fresh" -> call.fresh_by
      [] OTHER -> "none"

\* Two allocators compare equal: std::allocator is stateless, every two
\* of them are equal; another allocator type may carry state.
EqualAllocators(a, b) == Relocatable(kind) \/ a = b

\* C35: the allocator travels with buffer ownership: across move
\* construction, move assignment, copy assignment, assign and swap, the
\* vector that ends up owning a buffer holds the allocator that allocated
\* it, and a buffer released in the call is released through the allocator
\* that allocated it.
C35_AllocatorTravels ==
    Handover =>
        /\ Self.p # "null" => EqualAllocators(allocator_, AllocatedBy(Self.p))
        /\ call.other.p # "null" => EqualAllocators(call.other_alloc, AllocatedBy(call.other.p))
        /\ call.tmp.p = "freed" => EqualAllocators(call.tmp_by, AllocatedBy(call.pre.p))

\* C35, as the code behaves: it holds for copy assignment, assign and swap,
\* and for the buffers released.  The move constructor takes the buffer of
\* rhs and default-constructs its allocator, and move assignment is built
\* on it: after either the vector holds the buffer of rhs with a
\* default-constructed allocator.
C35_AllocatorTravelsAsBuilt ==
    Handover =>
        /\ Self.p # "null" =>
              IF call.op \in {"move_construct", "move_assign"}
              THEN allocator_ = "default" /\ AllocatedBy(Self.p) = "other"
              ELSE EqualAllocators(allocator_, AllocatedBy(Self.p))
        /\ call.op \in {"move_construct", "move_assign"} =>
              /\ Self.p = call.src.p
              /\ call.other.p = "null"
              /\ call.other_alloc = "other"
        /\ call.other.p # "null" => EqualAllocators(call.other_alloc, AllocatedBy(call.other.p))
        /\ call.tmp.p = "freed" => EqualAllocators(call.tmp_by, AllocatedBy(call.pre.p))

\* swap with a vector that holds a block: this vector now holds that block
\* and the allocator of the other vector, which holds this one's.
C35_Witness ==
    /\ call.op = "swap"
    /\ ~Relocatable(kind)
    /\ call.pre.p = "heap"
    /\ Self.p = "other"
    /\ allocator_ = "other"
    /\ call.other.p = "heap"
    /\ call.other_alloc = "own"

\* The account of the blocks of a call that returns: allocated, the blocks
\* it allocated and handed to a vector; released, in order, the blocks of
\* before the call that it deallocated; scratch, the number of blocks it
\* allocated and deallocated again.
Ledger(allocated, released, scratch) ==
    [allocated |-> allocated, released |-> released, scratch |-> scratch]

\* deallocate(p, sz) releases a block unless p is null.
Released(v) == IF v.p = "null" THEN <<>> ELSE <<v.p>>

\* A call that builds the vector in a new block of sz slots and
\* deallocates the old one (directly, or through the destructor of the
\* temporary it swapped with): allocate(0) is null, and realloc(p, 0) in
\* growShrinkAux, when it returns a pointer, returns a block.
Rebuilt(v, sz) ==
    Ledger(IF sz # 0 \/ (Relocatable(kind) /\ call.op \in GrowOps) THEN {"fresh"} ELSE {},
           Released(v), 0)

\* A call made of calls of insert(end(), x): every reallocation but the
\* last one allocates a block that the next one deallocates.
Appended(v, xs) ==
    LET n == Len(insertEachBlocks(kind, v, xs))
    IN  IF n = 0 THEN Ledger({}, <<>>, 0) ELSE Ledger({"fresh"}, Released(v), n - 1)

CallLedger ==
    LET v == call.pre
        op == call.op
        xs == call.vals
    IN  CASE StepAudited ->
                (IF CallSteps.sz = -1 THEN Ledger({}, <<>>, 0)
                 ELSE Rebuilt(v, CallSteps.sz))
          [] op = "push_back_alias" ->
                (IF pushBackSteps(v).sz = -1 THEN Ledger({}, <<>>, 0)
                 ELSE Rebuilt(v, pushBackSteps(v).sz))
          [] op = "copy_assign" -> Rebuilt(v, size(call.src))
          [] op = "move_assign" -> Ledger({}, Released(v), 0)
          [] op = "destroy" -> Ledger({}, Released(v), 0)
          [] op = "insert_range_input" ->
                (IF call.pos = v.fin THEN Appended(v, xs)
                 ELSE LET blocks == insertBlocks(kind, v, op, call.pos, xs)
                      IN  IF Len(blocks) = 2
                          THEN [Rebuilt(v, blocks[2]) EXCEPT !.scratch = 1]
                          ELSE Ledger({}, <<>>, Len(blocks)))
          [] op = "assign_range_input" ->
                (IF Len(xs) <= size(v) THEN Ledger({}, <<>>, 0)
                 ELSE Appended(v, SubSeq(xs, size(v) + 1, Len(xs))))
          [] OTHER -> Ledger({}, <<>>, 0)

\* The blocks that the vectors of a call hold.
Blocks(vs) == {v.p : v \in vs} \ {"null", "freed"}

NoElements(v) == \A i \in DOMAIN v.mem : v.mem[i] = Raw

\* C36: in every operation that returns, on this vector and the other
\* vector of the call, and in their destruction, every block is accounted
\* for: a block is deallocated at most once and only if a vector held it,
\* the blocks held afterwards are those held before and those allocated,
\* less those deallocated, no two vectors hold the same block, a block
\* that is deallocated holds no element, and after destruction no block
\* and no element is left.
C36_BlocksAccountedFor ==
    (call.op # "none" /\ call.threw = "none") =>
        LET led == CallLedger
            before == Blocks({call.pre, call.src})
            after == Blocks({Self, call.other})
            rel == {led.released[i] : i \in DOMAIN led.released}
        IN  /\ Cardinality(rel) = Len(led.released)
            /\ rel \subseteq before
            /\ led.allocated \cap before = {}
            /\ after = (before \cup led.allocated) \ rel
            /\ start_ # "null" => start_ # call.other.p
            /\ start_ = "freed" <=> (call.op = "destroy" /\ call.pre.p # "null")
            /\ call.tmp.p = "freed" => NoElements(call.tmp)
            /\ call.op = "destroy" => after = {} /\ NoElements(Self)
            /\ call.op # "destroy" => SlotsInOrder(Self)

\* A vector of two elements in a block has been destroyed.
C36_Witness ==
    /\ call.op = "destroy"
    /\ call.pre.p = "heap"
    /\ size(call.pre) = 2
    /\ start_ = "freed"
    /\ NoElements(Self)

\* shrink() was called on an empty vector that held a block.
ShrinkEmptied ==
    /\ call.op = "shrink"
    /\ size(call.pre) = 0
    /\ capacity(call.pre) > 0

\* C37: whenever capacity() is 0 the vector owns no allocation: data() is
\* null and begin() == end().  A default-constructed vector, a vector
\* constructed with zero elements and a moved-from vector are such
\* vectors, and shrink() on an empty vector that had capacity makes one.
C37_ZeroCapacityOwnsNothing ==
    /\ capacity(Self) = 0 => (start_ = "null" /\ size(Self) = 0)
    /\ (call.op \in {"move_construct", "move_assign"} /\ call.threw = "none") =>
          call.other = EmptyVec
    /\ ShrinkEmptied =>
          /\ call.threw = "none"
          /\ capacity(Self) = 0
          /\ start_ = "null"

\* C37, as the code behaves: it holds for every T that is not reallocated
\* with realloc, and for constructed and moved-from vectors.  For a T that
\* is, shrink() and resize(size()) call realloc(start_, 0): when that
\* returns a pointer the vector has capacity 0 and owns a block, and when
\* it returns null the call throws std::bad_alloc, with start_ left
\* pointing at the released block if realloc released it.
C37_ZeroCapacityAsBuilt ==
    /\ capacity(Self) = 0 =>
          /\ size(Self) = 0
          /\ start_ = "null" \/ (Relocatable(kind) /\ start_ \in {"fresh", "heap", "freed"})
    /\ (call.op \in {"construct_n", "construct_default", "construct_range",
                      "construct_range_input", "construct_copy"}
          /\ call.threw = "none" /\ capacity(Self) = 0) => start_ = "null"
    /\ (call.op \in {"move_construct", "move_assign"} /\ call.threw = "none") =>
          call.other = EmptyVec
    /\ ShrinkEmptied =>
          IF ~Relocatable(kind)
          THEN call.threw = "none" /\ capacity(Self) = 0 /\ start_ = "null"
          ELSE \/ call.threw = "none" /\ capacity(Self) = 0 /\ start_ = "fresh"
               \/ /\ call.threw = "bad_alloc"
                  /\ capacity(Self) = capacity(call.pre)
                  /\ start_ \in {"freed", call.pre.p}

\* shrink() on an empty vector of a realloc-ed T that held a block has
\* returned: capacity() is 0 and the vector holds a block.
C37_Witness ==
    /\ ShrinkEmptied
    /\ Relocatable(kind)
    /\ call.threw = "none"
    /\ capacity(Self) = 0
    /\ start_ = "fresh"

\* push_back(v[alias]) has returned.
AliasPushed == call.op = "push_back_alias" /\ call.threw = "none"

\* C38: push_back(e) with e an element of the same vector appends a copy
\* of that element's value, also when the call makes the vector grow; the
\* elements already in the vector keep their values.
C38_PushBackAliasCopies ==
    AliasPushed =>
        /\ size(Self) = size(call.pre) + 1
        /\ Self.mem[size(call.pre)] = call.pre.mem[call.pos]
        /\ \A i \in 0..(size(call.pre) - 1) : Self.mem[i] = call.pre.mem[i]

\* C38, as the code behaves: with spare capacity the copy is the element's
\* value.  When the vector is full, growShrinkAux has released the old
\* block before e is read: the appended element is whatever the read of
\* the released block finds, which need not be the element's value.
C38_PushBackAliasAsBuilt ==
    AliasPushed =>
        /\ size(Self) = size(call.pre) + 1
        /\ \A i \in 0..(size(call.pre) - 1) : Self.mem[i] = call.pre.mem[i]
        /\ size(call.pre) < capacity(call.pre) =>
              /\ Self.mem[size(call.pre)] = call.pre.mem[call.pos]
              /\ SameBlock
        /\ size(call.pre) = capacity(call.pre) =>
              /\ Self.mem[size(call.pre)] \in Dangling(kind)
              /\ start_ = "fresh"
              /\ capacity(Self) = capacity(call.pre) * 2 + 1

\* push_back(v[0]) on a full vector has returned, and the appended element
\* is not a copy of v[0].
C38_Witness ==
    /\ AliasPushed
    /\ size(call.pre) = capacity(call.pre)
    /\ call.pos = 0
    /\ Self.mem[size(call.pre)] # call.pre.mem[0]

\* A constructor of T threw while a vector was being constructed: by a
\* constructor called by the caller, or as the temporary of copy
\* assignment or of assign.
ConstructionThrew ==
    /\ call.threw = "ctor"
    /\ \/ call.op \in {"construct_n", "construct_default", "construct_range",
                        "construct_range_input", "construct_range_single_pass",
                        "construct_copy", "copy_assign"}
       \/ /\ call.op \in {"assign_n", "assign_range"}
          /\ call.count > capacity(call.pre)

\* C39: if an element constructor throws during a constructing operation
\* (count copies, count default elements, a range, an initializer list, a
\* copy, the temporary of copy assignment or of assign), the block
\* allocated for the new vector is deallocated before the exception
\* propagates: nothing is leaked.
C39_ThrowingConstructionReleases ==
    ConstructionThrew => call.tmp.p # "leaked"

\* C39, as the code behaves: the elements constructed so far are
\* destroyed, the vector the call was made on is as it was, and the block
\* that create allocated is left allocated with nothing pointing at it.
C39_ThrowingConstructionAsBuilt ==
    ConstructionThrew =>
        /\ call.tmp.p = "leaked"
        /\ capacity(call.tmp) = (IF call.op = "copy_assign" THEN size(call.src)
                                 ELSE call.count)
        /\ capacity(call.tmp) > 0
        /\ NoElements(call.tmp)
        /\ Self = call.pre
        /\ ~TriviallyCopyable(kind)

\* Vector(2, value) whose element constructor threw.
C39_Witness ==
    /\ call.op = "construct_n"
    /\ call.threw = "ctor"
    /\ call.count = 2
    /\ call.tmp.p = "leaked"
    /\ Self = EmptyVec

\* reserve(n) was called with n above capacity(); n * sizeof(T) is not
\* representable in SizeType.
ReserveGrows == call.op = "reserve" /\ call.count > capacity(call.pre)
Unrepresentable == call.count * SizeOfT >= 2 ^ SizeBits

\* The size in bytes of the block a returning reserve(n) obtained.
BlockBytes == IF Relocatable(kind) THEN ByteSize(call.count)
              ELSE call.count * SizeOfT

\* C40: reserve(n) never leaves a vector whose capacity() is n in a block
\* of fewer bytes than n elements take: when n * sizeof(T) is not
\* representable in SizeType the call fails with an error and leaves the
\* vector unchanged, and when it returns capacity() is n.
C40_ReserveOverflowFails ==
    ReserveGrows =>
        /\ call.threw = "none" =>
              /\ capacity(Self) = call.count
              /\ BlockBytes >= call.count * SizeOfT
        /\ Unrepresentable => (call.threw # "none" /\ Self = call.pre)

\* C40, as the code behaves: with an allocator asked for n objects the
\* claim holds.  For a T reallocated with realloc the request is
\* n * sizeof(T) modulo 2^w bytes: when the product wraps to a size the
\* memory can give, reserve returns with a capacity() of that many bytes'
\* worth of slots, fewer than n (and fewer than size() if the vector held
\* more); when it wraps to 0 the outcome is that of realloc(p, 0).
C40_ReserveOverflowAsBuilt ==
    ReserveGrows =>
        IF ~Relocatable(kind)
        THEN /\ call.threw = "none" =>
                   /\ capacity(Self) = call.count
                   /\ BlockBytes <= MaxBytes
             /\ Unrepresentable => (call.threw # "none" /\ Self = call.pre)
        ELSE /\ call.threw = "none" =>
                   /\ start_ = "fresh"
                   /\ capacity(Self) * SizeOfT = BlockBytes
                   /\ size(Self) = size(call.pre)
                   /\ BlockBytes <= MaxBytes
                   /\ Unrepresentable => capacity(Self) < call.count
                   /\ ~Unrepresentable => capacity(Self) = call.count
             /\ call.threw # "none" =>
                   /\ call.threw = "bad_alloc"
                   /\ Self = call.pre \/ (start_ = "freed" /\ BlockBytes = 0)

\* reserve(17) on a vector of a realloc-ed T has returned: 17 elements of
\* 2 bytes are 34 bytes, 2 modulo 32, and capacity() is 1.
C40_Witness ==
    /\ ReserveGrows
    /\ Relocatable(kind)
    /\ Unrepresentable
    /\ call.threw = "none"
    /\ capacity(Self) < call.count
    /\ capacity(Self) = 1
====
